---- MODULE Spec2Model ----
(***************************************************************************)
(* A model of the claude-hub webhook dispatcher:                           *)
(*   - the Slack signature verifier and the request pipeline around it,    *)
(*   - the repository-in-text parser and the repository name validator,    *)
(*   - the /plan, /bug and /test slash-command handlers.                   *)
(* Strings whose characters matter are sequences of one-character strings. *)
(***************************************************************************)
EXTENDS Integers, Sequences, FiniteSets, TLC

VARIABLES
    registry,     \* handlers registered with the webhook registry, in order
    req,          \* the inbound Slack request being processed (or NoRequest)
    now,          \* Math.floor(Date.now() / 1000) when the request is verified
    pc,           \* position of the request in the pipeline
    verified,     \* outcome of verifySignature: "none", "true", "false", "throw"
    envelope,     \* the Command Envelope built by parsePayload (or NoEnvelope)
    invoked,      \* names of the handlers whose handle was called, in order
    status,       \* how the request ended: "none", "ok", "no_handler", "unauthorized", "error"
    text,         \* the free text handed to parseRepositoryFromText
    parsed,       \* the call made and its result (or NotParsed)
    owner,        \* the owner handed to isValidRepository
    repo,         \* the repo handed to isValidRepository
    valid,        \* the result of isValidRepository: "none", "true" or "false"
    hKind,        \* the slash-command handler invoked: "plan", "bug", "test", "test_parser"
    payload,      \* payload.data of the invocation
    env,          \* process.env as seen by the handler
    hpc,          \* position of handle
    posts,        \* the messages posted to the response URL, in order
    runs,         \* number of processCommand calls made by the invocation
    sandbox,      \* the sandbox run: "none", "running", "succeeded", "failed", "timed_out"
    issues,       \* number of createIssue calls made by the invocation
    result,       \* what handle returned (or NoResult, or a rejection)
    sandboxAtReturn, \* the state of the sandbox run when handle returned
    runTarget,    \* the repository and request handed to processCommand (or NoTarget)
    issueTarget,  \* the repository and request handed to createIssue (or NoTarget)
    script,       \* the entrypoint script run by the container: "none", "logged", "fixed"
    operationType,  \* $OPERATION_TYPE
    allowedTools, \* $ALLOWED_TOOLS, a sequence of tool entries
    claudeStatus, \* the exit status of the assistant
    fullOutput,   \* the file holding the assistant's output
    lastToolLine, \* $last_tool_line (0 when it is the empty string)
    responseFile, \* $RESPONSE_FILE of the logged script
    stdout,       \* what the script has written to its standard output
    epc,          \* position of the script
    exitCode,     \* the exit status of the script (-1 while it runs)
    nenv,         \* process.env as seen by the SlackNotificationService
    svc,          \* the fields of the SlackNotificationService (or NotConstructed)
    lastCall,     \* the last notifyTask* call: its arguments and what became of it
    slackPosts,   \* the kinds of the chat.postMessage calls made, in order
    ncalls,       \* number of notifyTask* calls made
    formatCall,   \* the last formatting call of the SlackNotificationService: its arguments
    formatted,    \* what that call returned
    clock,        \* the container host's clock, in half seconds
    sessions,     \* for every container, the session it runs (or NoSession)
    ghEnv,        \* process.env and the stored GITHUB_TOKEN as seen by the GitHub service
    octokit,      \* whether the cached Octokit instance exists
    remoteLabels, \* the labels the pull request carries on GitHub
    ghCall,       \* the last call of the GitHub service: its arguments and outcome
    apiLog        \* the API requests that call made, in order

pipelineVars == <<registry, req, now, pc, verified, envelope, invoked, status>>

parserVars == <<text, parsed>>

validatorVars == <<owner, repo, valid>>

handlerVars ==
    <<hKind, payload, env, hpc, posts, runs, sandbox, issues, result, sandboxAtReturn,
      runTarget, issueTarget>>

entrypointVars ==
    <<script, operationType, allowedTools, claudeStatus, fullOutput, lastToolLine,
      responseFile, stdout, epc, exitCode>>

notifierVars == <<nenv, svc, lastCall, slackPosts, ncalls>>

formatterVars == <<formatCall, formatted>>

sessionVars == <<clock, sessions>>

githubVars == <<ghEnv, octokit, remoteLabels, ghCall, apiLog>>

\* the variables each component leaves alone
notPipeline == <<parserVars, validatorVars, handlerVars, entrypointVars, notifierVars, formatterVars, sessionVars, githubVars>>

notParser == <<pipelineVars, validatorVars, handlerVars, entrypointVars, notifierVars, formatterVars, sessionVars, githubVars>>

notValidator == <<pipelineVars, parserVars, handlerVars, entrypointVars, notifierVars, formatterVars, sessionVars, githubVars>>

notHandler == <<pipelineVars, parserVars, validatorVars, entrypointVars, notifierVars, formatterVars, sessionVars, githubVars>>

notEntrypoint == <<pipelineVars, parserVars, validatorVars, handlerVars, notifierVars, formatterVars, sessionVars, githubVars>>

notNotifier == <<pipelineVars, parserVars, validatorVars, handlerVars, entrypointVars, formatterVars, sessionVars, githubVars>>

notFormatter == <<pipelineVars, parserVars, validatorVars, handlerVars, entrypointVars, notifierVars, sessionVars, githubVars>>

notSession == <<pipelineVars, parserVars, validatorVars, handlerVars, entrypointVars, notifierVars, formatterVars, githubVars>>

notGithub == <<pipelineVars, parserVars, validatorVars, handlerVars, entrypointVars, notifierVars, formatterVars, sessionVars>>

vars == <<registry, req, now, pc, verified, envelope, invoked, status, text, parsed,
          owner, repo, valid,
          hKind, payload, env, hpc, posts, runs, sandbox, issues, result, sandboxAtReturn,
          runTarget, issueTarget,
          script, operationType, allowedTools, claudeStatus, fullOutput, lastToolLine,
          responseFile, stdout, epc, exitCode,
          nenv, svc, lastCall, slackPosts, ncalls,
          formatCall, formatted,
          clock, sessions,
          ghEnv, octokit, remoteLabels, ghCall, apiLog>>

(***************************************************************************)
(* Characters                                                              *)
(***************************************************************************)
Digits == {"0", "1", "2", "3", "4", "5", "6", "7", "8", "9"}

DigitValue(c) ==
    CASE c = "0" -> 0 [] c = "1" -> 1 [] c = "2" -> 2 [] c = "3" -> 3
      [] c = "4" -> 4 [] c = "5" -> 5 [] c = "6" -> 6 [] c = "7" -> 7
      [] c = "8" -> 8 [] c = "9" -> 9

\* the characters matched by \s that occur in the model
WhiteSpace == {" ", "\n"}

\* the characters not matched by . in a JavaScript regular expression
LineTerminators == {"\n"}

(***************************************************************************)
(* parseInt(string, 10): leading white space is skipped, an optional sign  *)
(* is read, then the longest prefix of decimal digits; NaN when there is   *)
(* no digit at that point.                                                 *)
(***************************************************************************)
Number(n) == [isNaN |-> FALSE, value |-> n]

NaN == [isNaN |-> TRUE, value |-> 0]

RECURSIVE SkipWhiteSpace(_)
SkipWhiteSpace(s) ==
    IF s # <<>> /\ Head(s) \in WhiteSpace THEN SkipWhiteSpace(Tail(s)) ELSE s

RECURSIVE DigitPrefixValue(_, _)
DigitPrefixValue(s, acc) ==
    IF s # <<>> /\ Head(s) \in Digits
    THEN DigitPrefixValue(Tail(s), 10 * acc + DigitValue(Head(s)))
    ELSE acc

parseInt(s) ==
    LET t == SkipWhiteSpace(s)
        signed == t # <<>> /\ Head(t) \in {"-", "+"}
        negative == t # <<>> /\ Head(t) = "-"
        u == IF signed THEN Tail(t) ELSE t
    IN  IF u = <<>> \/ Head(u) \notin Digits
        THEN NaN
        ELSE Number(IF negative THEN 0 - DigitPrefixValue(u, 0) ELSE DigitPrefixValue(u, 0))

\* Math.abs(a - b) > limit for an integer a and the result b of parseInt;
\* the difference with NaN is NaN and any comparison with NaN is false
AbsDiffExceeds(a, b, limit) ==
    IF b.isNaN
    THEN FALSE
    ELSE (IF a >= b.value THEN a - b.value ELSE b.value - a) > limit

(***************************************************************************)
(* Slack signature verification (SlackWebhookProvider.verifySignature)     *)
(***************************************************************************)
ReplayWindowSeconds == 300

\* length of a SHA-256 digest written in hexadecimal
HexDigestLength == 64

\* crypto.createHmac('sha256', secret).update(base).digest('hex'): a value
\* determined by (secret, base) and different for different pairs
HmacSha256Hex(secret, base) == <<"hmac-sha256", secret, base>>

\* a signature string: its length in bytes and its content (a tuple of parts)
SignatureString(content, length) == [len |-> length, content |-> content]

\* `v0:${timestamp}:${req.rawBody?.toString() ?? ''}`
SigBasestring(timestamp, r) ==
    <<"v0", timestamp, IF "rawBody" \in DOMAIN r THEN r.rawBody ELSE <<>>>>

\* 'v0=' + hex digest
ComputedSignature(secret, timestamp, r) ==
    SignatureString(<<"v0=", HmacSha256Hex(secret, SigBasestring(timestamp, r))>>,
                    3 + HexDigestLength)

\* crypto.timingSafeEqual: throws when the byte lengths differ
timingSafeEqual(a, b) ==
    IF a.len # b.len THEN "throw"
    ELSE IF a = b THEN "true" ELSE "false"

\* !header: the header is absent or the empty string
HeaderMissing(headers, name) ==
    IF name \notin DOMAIN headers THEN TRUE
    ELSE IF name = "x-slack-signature" THEN headers[name].len = 0
    ELSE headers[name] = <<>>

verifySignatureSync(r, secret, currentTime) ==
    IF \/ HeaderMissing(r.headers, "x-slack-signature")
       \/ HeaderMissing(r.headers, "x-slack-request-timestamp")
    THEN "false"
    ELSE LET signature == r.headers["x-slack-signature"]
             timestamp == r.headers["x-slack-request-timestamp"]
             requestTime == parseInt(timestamp)
         IN  IF AbsDiffExceeds(currentTime, requestTime, ReplayWindowSeconds)
             THEN "false"
             ELSE timingSafeEqual(ComputedSignature(secret, timestamp, r), signature)

\* verifySignature wraps the synchronous result in Promise.resolve: a throw
\* of verifySignatureSync leaves verifySignature as a throw
verifySignature(r, secret, currentTime) == verifySignatureSync(r, secret, currentTime)

(***************************************************************************)
(* Payload normalisation (SlackWebhookProvider.parsePayload)               *)
(***************************************************************************)
NoRequest == [kind |-> "none"]

NoEnvelope == [provider |-> "none"]

\* data.command ? `slash_command:${data.command}` : 'unknown'
getEventType(data) ==
    IF "command" \in DOMAIN data /\ data.command # ""
    THEN "slash_command:" \o data.command
    ELSE "unknown"

parsePayload(r) ==
    [provider |-> "slack", source |-> "slack", event |-> getEventType(r.body), data |-> r.body]

(***************************************************************************)
(* Handler registry: registration (providers/slack/index.ts) and routing   *)
(***************************************************************************)
\* canHandle of PlanHandler, BugHandler and TestHandler
canHandle(name, p) ==
    /\ "command" \in DOMAIN p.data
    /\ p.data.command = (CASE name = "plan_handler" -> "/plan"
                                 [] name = "bug_handler" -> "/bug"
                                 [] name = "test_handler" -> "/test")

registerHandler(reg, provider, event, name) ==
    Append(reg, [provider |-> provider, event |-> event, name |-> name])

\* the registrations made when providers/slack/index.ts is loaded; the
\* /test handler is registered by one of the two versions of that module
SlackIndex(withTest) ==
    LET r1 == registerHandler(<<>>, "slack", "slash_command:/plan", "plan_handler")
        r2 == registerHandler(r1, "slack", "slash_command:/bug", "bug_handler")
    IN  IF withTest
        THEN registerHandler(r2, "slack", "slash_command:/test", "test_handler")
        ELSE r2

\* a routing that takes the first handler registered from position i on,
\* whatever its event and its canHandle
FirstRegistered(reg, e, i) == IF i > Len(reg) THEN 0 ELSE i

\* index of the first handler registered for (provider, event) of the
\* envelope whose canHandle accepts it, from position i on; 0 when none
RECURSIVE FirstMatch(_, _, _)
FirstMatch(reg, e, i) ==
    IF i > Len(reg) THEN 0
    ELSE IF /\ reg[i].provider = e.provider
            /\ reg[i].event = e.event
            /\ canHandle(reg[i].name, e)
         THEN i
         ELSE FirstMatch(reg, e, i + 1)

\* dispatch: the names of the handlers invoked for the envelope
dispatch(reg, e) ==
    LET i == FirstMatch(reg, e, 1)
    IN  IF i = 0 THEN <<>> ELSE <<reg[i].name>>

(***************************************************************************)
(* Inbound requests                                                        *)
(***************************************************************************)
SigningSecret == "signing-secret"

WrongSecret == "guessed-secret"

Commands == {"/plan", "/bug", "/test", "/deploy"}

\* form data of a slash command; a request may carry no command at all
SlackBodies ==
    {[command |-> c, team_id |-> "T1", user_id |-> "U1"] : c \in Commands}
        \cup {[team_id |-> "T1", user_id |-> "U1"]}

NowSamples == {1000}

\* values of the x-slack-request-timestamp header: at, just inside and just
\* outside the replay window around 1000, and values that are no number
TimestampHeaders ==
    { <<"1", "0", "0", "0">>, <<"7", "0", "0">>, <<"6", "9", "9">>,
      <<"1", "3", "0", "0">>, <<"1", "3", "0", "1">>,
      <<"-", "1">>, <<"a", "b", "c">>, <<"9", "9", "9", "x">>, <<>> }

GarbageSignatures ==
    { SignatureString(<<>>, 0),
      SignatureString(<<"v0=abc">>, 6),
      SignatureString(<<"v0=", <<"ffff">>>>, 3 + HexDigestLength),
      SignatureString(<<"v0=", <<"ffff0">>>>, 4 + HexDigestLength) }

\* the raw body is kept by the body parser; a request it did not parse has none
RawBodyPart(hasRaw, b) == IF hasRaw THEN [rawBody |-> <<"raw", b>>] ELSE [kind |-> "request"]

\* signatures a sender can attach: computed with some secret over some
\* timestamp and body (the ones sent or others), or arbitrary text
SignaturesFor(ts, hasRaw, b) ==
    { ComputedSignature(s, t, RawBodyPart(hr, bb)) :
        s \in {SigningSecret, WrongSecret},
        t \in {ts, <<"1", "0", "0", "0">>},
        hr \in {hasRaw, TRUE},
        bb \in {b, [command |-> "/plan", team_id |-> "T1", user_id |-> "U1"]} }
      \cup GarbageSignatures

HeaderSets(ts, hasRaw, b) ==
    LET tsPart == {[k \in {} |-> 0], ("x-slack-request-timestamp" :> ts)}
        sigPart == {[k \in {} |-> 0]}
                     \cup {("x-slack-signature" :> sg) : sg \in SignaturesFor(ts, hasRaw, b)}
    IN  {t @@ sg : t \in tsPart, sg \in sigPart}

Requests ==
    UNION { { RawBodyPart(hasRaw, b) @@ [kind |-> "request", headers |-> h, body |-> b] :
                h \in HeaderSets(ts, hasRaw, b) } :
            ts \in TimestampHeaders, hasRaw \in BOOLEAN, b \in SlackBodies }

(***************************************************************************)
(* The request pipeline: verify, normalise, dispatch                       *)
(***************************************************************************)
PipelineInit ==
    /\ registry = <<>>
    /\ req = NoRequest
    /\ now = 0
    /\ pc = "load"
    /\ verified = "none"
    /\ envelope = NoEnvelope
    /\ invoked = <<>>
    /\ status = "none"

\* loading providers/slack/index.ts registers the handlers
LoadIndex ==
    /\ pc = "load"
    /\ \E withTest \in BOOLEAN : registry' = SlackIndex(withTest)
    /\ pc' = "idle"
    /\ UNCHANGED <<req, now, verified, envelope, invoked, status>>
    /\ UNCHANGED notPipeline

Receive ==
    /\ pc = "idle"
    /\ \E r \in Requests : req' = r
    /\ pc' = "verify"
    /\ UNCHANGED <<registry, now, verified, envelope, invoked, status>>
    /\ UNCHANGED notPipeline

\* a failed verification ends the request as unauthorized; a throw of the
\* verifier reaches the error middleware of the application
Verify ==
    /\ pc = "verify"
    /\ \E t \in NowSamples :
          /\ now' = t
          /\ verified' = verifySignature(req, SigningSecret, t)
    /\ pc' = IF verified' = "true" THEN "parse" ELSE "done"
    /\ status' = CASE verified' = "true" -> status
                    [] verified' = "false" -> "unauthorized"
                    [] verified' = "throw" -> "error"
    /\ UNCHANGED <<registry, req, envelope, invoked>>
    /\ UNCHANGED notPipeline

ParsePayload ==
    /\ pc = "parse"
    /\ envelope' = parsePayload(req)
    /\ pc' = "dispatch"
    /\ UNCHANGED <<registry, req, now, verified, invoked, status>>
    /\ UNCHANGED notPipeline

Dispatch ==
    /\ pc = "dispatch"
    /\ invoked' = invoked \o dispatch(registry, envelope)
    /\ status' = IF dispatch(registry, envelope) = <<>> THEN "no_handler" ELSE "ok"
    /\ pc' = "done"
    /\ UNCHANGED <<registry, req, now, verified, envelope>>
    /\ UNCHANGED notPipeline

PipelineNext == LoadIndex \/ Receive \/ Verify \/ ParsePayload \/ Dispatch

(***************************************************************************)
(* String operations used by the repository parser                         *)
(***************************************************************************)
Letters == {"a", "o", "r", "p", "s", "e"}

\* every character of the model
AllChars == Letters \cup Digits \cup {"_", ".", "-", "/", ":", "#"} \cup WhiteSpace

\* \w
WordChars == Letters \cup Digits \cup {"_"}

\* String.prototype.trim: white space removed at both ends
RECURSIVE TrimEnd(_)
TrimEnd(s) ==
    IF s # <<>> /\ s[Len(s)] \in WhiteSpace THEN TrimEnd(SubSeq(s, 1, Len(s) - 1)) ELSE s

trim(s) == TrimEnd(SkipWhiteSpace(s))

\* s.includes(c)
includes(s, c) == \E i \in 1..Len(s) : s[i] = c

\* s.split(c): the pieces of s between the occurrences of c
RECURSIVE split(_, _)
split(s, c) ==
    IF ~includes(s, c) THEN <<s>>
    ELSE LET i == CHOOSE k \in 1..Len(s) : s[k] = c /\ \A j \in 1..(k - 1) : s[j] # c
         IN  <<SubSeq(s, 1, i - 1)>> \o split(SubSeq(s, i + 1, Len(s)), c)

\* parts.join(c)
RECURSIVE join(_, _)
join(parts, c) ==
    IF parts = <<>> THEN <<>>
    ELSE IF Len(parts) = 1 THEN parts[1]
    ELSE parts[1] \o <<c>> \o join(Tail(parts), c)

\* length of the longest prefix of s made of characters of the class
RECURSIVE RunLength(_, _)
RunLength(s, class) ==
    IF s # <<>> /\ Head(s) \in class THEN 1 + RunLength(Tail(s), class) ELSE 0

Drop(s, n) == SubSeq(s, n + 1, Len(s))

(***************************************************************************)
(* parseRepositoryFromText (utils/repositoryParser.ts)                     *)
(***************************************************************************)
\* [\w.-]
RepoNameChars == WordChars \cup {".", "-"}

\* . (any character but a line terminator)
AnyButLineTerminator == AllChars \ LineTerminators

NoMatch == [matched |-> FALSE]

\* trimmedText.match(/^([\w.-]+)\/([\w.-]+)(?:\s+(.*))?$/): the groups are
\* greedy, so group 1 is the longest run of name characters and must be
\* followed by '/', group 2 the longest run after it; then either the text
\* ends, or white space follows and (.*) must reach the end of the text
RepoMatch(t) ==
    LET n1 == RunLength(t, RepoNameChars)
        t1 == Drop(t, n1)
        t2 == IF t1 = <<>> THEN <<>> ELSE Tail(t1)
        n2 == RunLength(t2, RepoNameChars)
        t3 == Drop(t2, n2)
        nw == RunLength(t3, WhiteSpace)
        t4 == Drop(t3, nw)
    IN  IF n1 = 0 \/ t1 = <<>> \/ Head(t1) # "/" \/ n2 = 0
        THEN NoMatch
        ELSE IF t3 = <<>>
        THEN [matched |-> TRUE, g1 |-> SubSeq(t, 1, n1), g2 |-> SubSeq(t2, 1, n2), g3 |-> <<>>]
        ELSE IF nw > 0 /\ RunLength(t4, AnyButLineTerminator) = Len(t4)
        THEN [matched |-> TRUE, g1 |-> SubSeq(t, 1, n1), g2 |-> SubSeq(t2, 1, n2), g3 |-> t4]
        ELSE NoMatch

DemoRepository == <<"d", "e", "m", "o", "-", "r", "e", "p", "o", "s", "i", "t", "o", "r", "y">>

ClaudeDidThis == <<"c", "l", "a", "u", "d", "e", "-", "d", "i", "d", "-", "t", "h", "i", "s">>

\* a ?? b ?? c over the optional keys of the call and of the environment
Coalesce(cfg, argKey, envKey, builtin) ==
    IF argKey \in DOMAIN cfg THEN cfg[argKey]
    ELSE IF envKey \in DOMAIN cfg THEN cfg[envKey]
    ELSE builtin

\* a repo part that keeps only the piece after the first slash
DefaultRepoPartSecondPiece(parts) == parts[2]

\* parts.slice(1).join('/')
DefaultRepoPart(parts) == join(Tail(parts), "/")

parseRepositoryFromText(txt, cfg) ==
    LET trimmedText == trim(txt)
        repoMatch == RepoMatch(trimmedText)
        defaultRepoValue == Coalesce(cfg, "defaultRepo", "DEFAULT_GITHUB_REPO", DemoRepository)
        defaultOwnerValue == Coalesce(cfg, "defaultOwner", "DEFAULT_GITHUB_OWNER", ClaudeDidThis)
    IN  IF repoMatch.matched
        THEN [owner |-> repoMatch.g1, repo |-> repoMatch.g2,
              remainingText |-> trim(repoMatch.g3), isExplicit |-> TRUE]
        ELSE IF includes(defaultRepoValue, "/")
        THEN LET parts == split(defaultRepoValue, "/")
             IN  [owner |-> parts[1], repo |-> DefaultRepoPart(parts),
                  remainingText |-> trimmedText, isExplicit |-> FALSE]
        ELSE [owner |-> defaultOwnerValue, repo |-> defaultRepoValue,
              remainingText |-> trimmedText, isExplicit |-> FALSE]

(***************************************************************************)
(* Calls of the repository parser on arbitrary short texts                 *)
(***************************************************************************)
MaxTextLen == 7

TextAlphabet == {"a", ".", "/", " ", "\n"}

NotParsed == [called |-> FALSE]

\* the defaults passed to the call and those set in the environment
DefaultConfigs ==
    { [k \in {} |-> <<>>],
      [defaultOwner |-> <<"o">>, defaultRepo |-> <<"r">>],
      [defaultOwner |-> <<"o">>, defaultRepo |-> <<"a", "/", "p", "/", "s">>],
      [DEFAULT_GITHUB_OWNER |-> <<"e">>, DEFAULT_GITHUB_REPO |-> <<"r", "e">>],
      [DEFAULT_GITHUB_REPO |-> <<"e", "/", "r">>],
      [defaultRepo |-> <<"r">>, DEFAULT_GITHUB_OWNER |-> <<"e">>,
       DEFAULT_GITHUB_REPO |-> <<"e", "/", "r">>] }

ParserInit ==
    /\ text = <<>>
    /\ parsed = NotParsed

TypeChar ==
    /\ ~parsed.called
    /\ Len(text) < MaxTextLen
    /\ \E c \in TextAlphabet : text' = Append(text, c)
    /\ UNCHANGED parsed
    /\ UNCHANGED notParser

CallParse ==
    /\ ~parsed.called
    /\ \E cfg \in DefaultConfigs :
          parsed' = [called |-> TRUE, config |-> cfg,
                     result |-> parseRepositoryFromText(text, cfg)]
    /\ UNCHANGED text
    /\ UNCHANGED notParser

ParserNext == TypeChar \/ CallParse

(***************************************************************************)
(* isValidRepository (utils/repositoryParser.ts)                           *)
(***************************************************************************)
\* [a-zA-Z0-9]
AlphaNumerics == Letters \cup Digits

\* a test of the owner that lets the name end with any owner character
OwnerRegexTestAnyEnd(s) ==
    /\ s # <<>>
    /\ Head(s) \in AlphaNumerics
    /\ RunLength(Tail(s), AlphaNumerics \cup {"-"}) = Len(Tail(s))

\* /^[a-zA-Z0-9]([a-zA-Z0-9-]*[a-zA-Z0-9])?$/.test(s): one alphanumeric,
\* then either the end, or a run of alphanumerics and hyphens that reaches
\* the end and gives back its last character, which must be alphanumeric
OwnerRegexTest(s) ==
    /\ s # <<>>
    /\ Head(s) \in AlphaNumerics
    /\ \/ Tail(s) = <<>>
       \/ /\ RunLength(Tail(s), AlphaNumerics \cup {"-"}) = Len(Tail(s))
          /\ s[Len(s)] \in AlphaNumerics

\* /^[a-zA-Z0-9._-]+$/.test(s)
RepoRegexTest(s) ==
    /\ RunLength(s, AlphaNumerics \cup {".", "_", "-"}) >= 1
    /\ RunLength(s, AlphaNumerics \cup {".", "_", "-"}) = Len(s)

isValidRepository(o, r) == OwnerRegexTest(o) /\ RepoRegexTest(r)

(***************************************************************************)
(* Calls of the validator on arbitrary short names                         *)
(***************************************************************************)
MaxOwnerLen == 4

MaxRepoLen == 2

NameAlphabet == {"a", "-", ".", "_", "/"}

ValidatorInit ==
    /\ owner = <<>>
    /\ repo = <<>>
    /\ valid = "none"

TypeOwnerChar ==
    /\ valid = "none"
    /\ repo = <<>>
    /\ Len(owner) < MaxOwnerLen
    /\ \E c \in NameAlphabet : owner' = Append(owner, c)
    /\ UNCHANGED <<repo, valid>>
    /\ UNCHANGED notValidator

TypeRepoChar ==
    /\ valid = "none"
    /\ Len(repo) < MaxRepoLen
    /\ \E c \in NameAlphabet : repo' = Append(repo, c)
    /\ UNCHANGED <<owner, valid>>
    /\ UNCHANGED notValidator

CallIsValid ==
    /\ valid = "none"
    /\ valid' = IF isValidRepository(owner, repo) THEN "true" ELSE "false"
    /\ UNCHANGED <<owner, repo>>
    /\ UNCHANGED notValidator

ValidatorNext == TypeOwnerChar \/ TypeRepoChar \/ CallIsValid

(***************************************************************************)
(* The slash-command handlers (providers/slack/handlers)                   *)
(***************************************************************************)
HandlerKinds == {"plan", "bug", "test", "test_parser"}

NoResult == [kind |-> "none"]

Response(success) == [kind |-> "response", success |-> success]

\* handle threw or its promise was rejected
Rejected == [kind |-> "rejected"]

\* !text || text.trim().length === 0
TextMissing(data) == "text" \notin DOMAIN data \/ trim(data.text) = <<>>

\* text?.trim() ?? ''
TrimmedOrEmpty(data) == IF "text" \in DOMAIN data THEN trim(data.text) ELSE <<>>

\* !process.env.X: the variable is unset or empty
EnvMissing(e, name) == name \notin DOMAIN e \/ e[name] = <<>>

\* [\w-]
HandlerNameChars == WordChars \cup {"-"}

\* commandText.match(/^([\w-]+\/[\w-]+)\s*(.*)/) of TestHandler: the text
\* starts with a run of name characters, '/', and a run of name characters
TestRepoMatches(t) ==
    LET n1 == RunLength(t, HandlerNameChars)
        t1 == Drop(t, n1)
    IN  /\ n1 > 0
        /\ t1 # <<>>
        /\ Head(t1) = "/"
        /\ RunLength(Tail(t1), HandlerNameChars) > 0

\* the /test handlers answer "DEFAULT_GITHUB_OWNER not configured" when the
\* text names no repository and the environment gives no owner
OwnerNotConfigured(kind, data, e) ==
    IF kind = "test"
    THEN /\ ~TestRepoMatches(TrimmedOrEmpty(data))
         /\ ~includes(Coalesce(e, "none", "DEFAULT_GITHUB_REPO", DemoRepository), "/")
         /\ EnvMissing(e, "DEFAULT_GITHUB_OWNER")
    ELSE /\ ~parseRepositoryFromText(TrimmedOrEmpty(data), e).isExplicit
         /\ EnvMissing(e, "DEFAULT_GITHUB_OWNER")
         /\ ~("DEFAULT_GITHUB_REPO" \in DOMAIN e /\ includes(e.DEFAULT_GITHUB_REPO, "/"))

\* a respondToSlack whose guard on the response URL is inverted
respondToSlackInverted(log, data, message, delivered) ==
    IF "response_url" \in DOMAIN data /\ data.response_url # ""
    THEN [posts |-> log, thrown |-> FALSE]
    ELSE [posts |-> Append(log, [message |-> message, delivered |-> delivered]),
          thrown |-> FALSE]

\* a respondToSlack that lets the failure of axios.post escape
respondToSlackUncaught(log, data, message, delivered) ==
    IF "response_url" \notin DOMAIN data \/ data.response_url = ""
    THEN [posts |-> log, thrown |-> FALSE]
    ELSE [posts |-> Append(log, [message |-> message, delivered |-> delivered]),
          thrown |-> ~delivered]

\* respondToSlack: nothing without a response URL; otherwise axios.post,
\* whose failure is caught and logged.  Yields the posts made so far and
\* whether the call threw.
respondToSlack(log, data, message, delivered) ==
    IF "response_url" \notin DOMAIN data \/ data.response_url = ""
    THEN [posts |-> log, thrown |-> FALSE]
    ELSE [posts |-> Append(log, [message |-> message, delivered |-> delivered]),
          thrown |-> FALSE]

\* a continuation that runs the sandbox again after a failed run
AfterSandboxRetry(kind, outcome) ==
    IF outcome # "succeeded" THEN "run"
    ELSE IF kind \in {"plan", "bug"} THEN "createIssue" ELSE "success"

\* a continuation that goes on to the issue whatever became of the run
AfterSandboxIgnoringFailure(kind, outcome) ==
    IF kind \in {"plan", "bug"} THEN "createIssue" ELSE "success"

\* where handle continues when the await of processCommand settles: a
\* rejection goes to the catch block, a result to createIssue (/plan, /bug)
\* or to the success message (/test)
AfterSandbox(kind, outcome) ==
    IF outcome # "succeeded" THEN "catch"
    ELSE IF kind \in {"plan", "bug"} THEN "createIssue" ELSE "success"

(***************************************************************************)
(* The repository and the request a handler works on                       *)
(***************************************************************************)
NoTarget == [called |-> FALSE]

Target(repoFullName, request) ==
    [called |-> TRUE, repoFullName |-> repoFullName, request |-> request]

\* `${owner}/${repo}`
FullName(o, r) == o \o <<"/">> \o r

\* process.env.X ?? builtin
EnvOr(e, name, builtin) == IF name \in DOMAIN e THEN e[name] ELSE builtin

\* text.match(/^([\w-]+)\/([\w-]+)\s+(.*)/) of PlanHandler
PlanRepoMatch(t) ==
    LET n1 == RunLength(t, HandlerNameChars)
        t1 == Drop(t, n1)
        n2 == IF t1 # <<>> /\ Head(t1) = "/" THEN RunLength(Tail(t1), HandlerNameChars) ELSE 0
        t2 == IF n2 > 0 THEN Drop(Tail(t1), n2) ELSE <<>>
        n3 == RunLength(t2, WhiteSpace)
        t3 == Drop(t2, n3)
    IN  IF n1 > 0 /\ n2 > 0 /\ n3 > 0
        THEN [matched |-> TRUE, g1 |-> SubSeq(t, 1, n1), g2 |-> SubSeq(Tail(t1), 1, n2),
              g3 |-> SubSeq(t3, 1, RunLength(t3, AnyButLineTerminator))]
        ELSE NoMatch

\* commandText.match(/^([\w-]+\/[\w-]+)\s*(.*)/) of TestHandler
TestRepoMatch(t) ==
    IF TestRepoMatches(t)
    THEN LET n1 == RunLength(t, HandlerNameChars)
             n2 == RunLength(Drop(t, n1 + 1), HandlerNameChars)
             t2 == Drop(t, n1 + 1 + n2)
             t3 == Drop(t2, RunLength(t2, WhiteSpace))
         IN  [matched |-> TRUE, g1 |-> SubSeq(t, 1, n1 + 1 + n2),
              g2 |-> SubSeq(t3, 1, RunLength(t3, AnyButLineTerminator)), g3 |-> <<>>]
    ELSE NoMatch

\* remainingText || 'webhook test acknowledgment'
WebhookTestAcknowledgment == <<"webhook test acknowledgment">>

\* the repository full name and the request text a handler hands on, from
\* the text of the command and the environment
SelectRepository(kind, data, e) ==
    CASE kind = "plan" ->
           LET repoMatch == PlanRepoMatch(data.text)
           IN  IF repoMatch.matched
               THEN Target(FullName(repoMatch.g1, repoMatch.g2), repoMatch.g3)
               ELSE Target(FullName(EnvOr(e, "DEFAULT_GITHUB_OWNER", ClaudeDidThis),
                                    EnvOr(e, "DEFAULT_GITHUB_REPO", DemoRepository)),
                           data.text)
      [] kind = "bug" ->
           Target(FullName(EnvOr(e, "DEFAULT_GITHUB_OWNER", ClaudeDidThis),
                           EnvOr(e, "DEFAULT_GITHUB_REPO", DemoRepository)),
                  data.text)
      [] kind = "test" ->
           LET commandText == TrimmedOrEmpty(data)
               repoMatch == TestRepoMatch(commandText)
               defaultRepo == EnvOr(e, "DEFAULT_GITHUB_REPO", DemoRepository)
           IN  IF repoMatch.matched
               THEN Target(repoMatch.g1, repoMatch.g2)
               ELSE IF includes(defaultRepo, "/")
               THEN Target(defaultRepo, commandText)
               ELSE Target(FullName(e.DEFAULT_GITHUB_OWNER, defaultRepo), commandText)
      [] kind = "test_parser" ->
           LET p == parseRepositoryFromText(TrimmedOrEmpty(data), e)
           IN  Target(FullName(p.owner, p.repo),
                      IF p.remainingText = <<>> THEN WebhookTestAcknowledgment
                      ELSE p.remainingText)

(***************************************************************************)
(* Invocations of the handlers                                             *)
(***************************************************************************)
\* free texts of a slash command
HandlerTexts ==
    { <<>>, <<" ">>, <<"a">>, <<"a", "/", "a">>, <<"a", "/", "a", " ", "a">>,
      <<"a", ".", "a", "/", "a", " ", "a">> }

HandlerPayloads ==
    LET textPart == {[user_name |-> "u"]} \cup {[user_name |-> "u", text |-> t] : t \in HandlerTexts}
        urlPart == {[channel_name |-> "c"], [channel_name |-> "c", response_url |-> "https://hooks"]}
    IN  {t @@ u : t \in textPart, u \in urlPart}

HandlerEnvs ==
    { [NODE_ENV |-> <<>>],
      [DEFAULT_GITHUB_OWNER |-> <<"o">>, DEFAULT_GITHUB_REPO |-> <<"r">>],
      [DEFAULT_GITHUB_REPO |-> <<"o", "/", "r">>],
      [DEFAULT_GITHUB_OWNER |-> <<"o">>] }

HandlerInit ==
    /\ hKind = "none"
    /\ payload = [user_name |-> "u"]
    /\ env = [NODE_ENV |-> <<>>]
    /\ hpc = "idle"
    /\ posts = <<>>
    /\ runs = 0
    /\ sandbox = "none"
    /\ issues = 0
    /\ result = NoResult
    /\ sandboxAtReturn = "none"
    /\ runTarget = NoTarget
    /\ issueTarget = NoTarget

\* handle is called with a payload
Invoke ==
    /\ hpc = "idle"
    /\ \E k \in HandlerKinds : hKind' = k
    /\ \E d \in HandlerPayloads : payload' = d
    /\ \E e \in HandlerEnvs : env' = e
    /\ hpc' = "entered"
    /\ UNCHANGED <<posts, runs, runTarget, sandbox, issues, issueTarget, result, sandboxAtReturn>>
    /\ UNCHANGED notHandler

\* handle returns r (or throws, when r is Rejected)
Return(r) ==
    /\ result' = r
    /\ hpc' = "returned"
    /\ sandboxAtReturn' = sandbox

\* /plan and /bug: the check of the text, before the try block
ValidateText ==
    /\ hpc = "entered"
    /\ hKind \in {"plan", "bug"}
    /\ IF TextMissing(payload)
       THEN \E delivered \in BOOLEAN :
              LET r == respondToSlack(posts, payload, "usage", delivered)
              IN  /\ posts' = r.posts
                  /\ Return(IF r.thrown THEN Rejected ELSE Response(FALSE))
       ELSE /\ hpc' = "ack"
            /\ UNCHANGED <<posts, result, sandboxAtReturn>>
    /\ UNCHANGED <<hKind, payload, env, runs, runTarget, sandbox, issues, issueTarget>>
    /\ UNCHANGED notHandler

\* /test: the choice of the repository, inside the try block
ChooseRepository ==
    /\ hpc = "entered"
    /\ hKind \in {"test", "test_parser"}
    /\ IF OwnerNotConfigured(hKind, payload, env)
       THEN \E delivered \in BOOLEAN :
              LET r == respondToSlack(posts, payload, "not_configured", delivered)
              IN  /\ posts' = r.posts
                  /\ IF r.thrown
                     THEN hpc' = "catch" /\ UNCHANGED <<result, sandboxAtReturn>>
                     ELSE Return(Response(FALSE))
       ELSE /\ hpc' = "ack"
            /\ UNCHANGED <<posts, result, sandboxAtReturn>>
    /\ UNCHANGED <<hKind, payload, env, runs, runTarget, sandbox, issues, issueTarget>>
    /\ UNCHANGED notHandler

\* await respondToSlack(processing message)
Acknowledge ==
    /\ hpc = "ack"
    /\ \E delivered \in BOOLEAN :
          LET r == respondToSlack(posts, payload, "processing", delivered)
          IN  /\ posts' = r.posts
              /\ hpc' = IF r.thrown THEN "catch" ELSE "run"
    /\ UNCHANGED <<hKind, payload, env, runs, runTarget, sandbox, issues, issueTarget, result, sandboxAtReturn>>
    /\ UNCHANGED notHandler

\* processCommand is called and awaited
StartRun ==
    /\ hpc = "run"
    /\ runs' = runs + 1
    /\ runTarget' = SelectRepository(hKind, payload, env)
    /\ sandbox' = "running"
    /\ hpc' = "awaitRun"
    /\ UNCHANGED <<hKind, payload, env, posts, issues, issueTarget, result, sandboxAtReturn>>
    /\ UNCHANGED notHandler

\* the sandbox run ends: with a response, with an error, or killed on timeout
SandboxFinish ==
    /\ sandbox = "running"
    /\ \E outcome \in {"succeeded", "failed", "timed_out"} : sandbox' = outcome
    /\ UNCHANGED <<hKind, payload, env, hpc, posts, runs, runTarget, issues, issueTarget, result, sandboxAtReturn>>
    /\ UNCHANGED notHandler

\* the await of processCommand settles
ResumeAfterRun ==
    /\ hpc = "awaitRun"
    /\ sandbox # "running"
    /\ hpc' = AfterSandbox(hKind, sandbox)
    /\ UNCHANGED <<hKind, payload, env, posts, runs, runTarget, sandbox, issues, issueTarget, result, sandboxAtReturn>>
    /\ UNCHANGED notHandler

\* /plan and /bug: await createIssue, which throws on an invalid repository,
\* a missing client or a failed API call
CreateIssue ==
    /\ hpc = "createIssue"
    /\ issues' = issues + 1
    /\ issueTarget' = SelectRepository(hKind, payload, env)
    /\ \E created \in BOOLEAN : hpc' = IF created THEN "success" ELSE "catch"
    /\ UNCHANGED <<hKind, payload, env, posts, runs, runTarget, sandbox, result, sandboxAtReturn>>
    /\ UNCHANGED notHandler

\* await respondToSlack(success message); return { success: true }
RespondSuccess ==
    /\ hpc = "success"
    /\ \E delivered \in BOOLEAN :
          LET r == respondToSlack(posts, payload, "success", delivered)
          IN  /\ posts' = r.posts
              /\ IF r.thrown
                 THEN hpc' = "catch" /\ UNCHANGED <<result, sandboxAtReturn>>
                 ELSE Return(Response(TRUE))
    /\ UNCHANGED <<hKind, payload, env, runs, runTarget, sandbox, issues, issueTarget>>
    /\ UNCHANGED notHandler

\* the catch block: await respondToSlack(failure message); return { success: false }
CatchBlock ==
    /\ hpc = "catch"
    /\ \E delivered \in BOOLEAN :
          LET r == respondToSlack(posts, payload, "failure", delivered)
          IN  /\ posts' = r.posts
              /\ Return(IF r.thrown THEN Rejected ELSE Response(FALSE))
    /\ UNCHANGED <<hKind, payload, env, runs, runTarget, sandbox, issues, issueTarget>>
    /\ UNCHANGED notHandler

HandlerNext ==
    \/ Invoke
    \/ ValidateText
    \/ ChooseRepository
    \/ Acknowledge
    \/ StartRun
    \/ SandboxFinish
    \/ ResumeAfterRun
    \/ CreateIssue
    \/ RespondSuccess
    \/ CatchBlock

(***************************************************************************)
(* The sandbox entrypoint scripts: claudecode-entrypoint-logged.sh and the  *)
(* rewritten ("fixed") entrypoint, which runs under set -e                  *)
(***************************************************************************)
Scripts == {"logged", "fixed"}

\* one entry of --allowedTools: a tool, or Bash restricted to the commands
\* that start with the given words
Tool(name) == [tool |-> name, scoped |-> FALSE, command |-> <<>>]

BashOnly(command) == [tool |-> "Bash", scoped |-> TRUE, command |-> command]

\* "Read,GitHub,Bash(gh issue edit:*),Bash(gh issue view:*),Bash(gh label list:*)"
TaggingTools ==
    << Tool("Read"), Tool("GitHub"), BashOnly(<<"gh", "issue", "edit">>),
       BashOnly(<<"gh", "issue", "view">>), BashOnly(<<"gh", "label", "list">>) >>

\* the tools both scripts give a PR review
ReviewToolsFixed ==
    << Tool("Read"), Tool("GitHub"), BashOnly(<<"gh">>), BashOnly(<<"git", "log">>),
       BashOnly(<<"git", "show">>), BashOnly(<<"git", "diff">>) >>

\* the logged script adds the research commands
ReviewToolsLogged ==
    ReviewToolsFixed \o
    << BashOnly(<<"git", "blame">>), BashOnly(<<"find">>), BashOnly(<<"grep">>),
       BashOnly(<<"rg">>), BashOnly(<<"cat">>), BashOnly(<<"head">>), BashOnly(<<"tail">>),
       BashOnly(<<"ls">>), BashOnly(<<"tree">>) >>

\* "Bash,Create,Edit,Read,Write,GitHub,Bash(gh pr:*),Bash(gh issue:*)"
FullTools ==
    << Tool("Bash"), Tool("Create"), Tool("Edit"), Tool("Read"), Tool("Write"),
       Tool("GitHub"), BashOnly(<<"gh", "pr">>), BashOnly(<<"gh", "issue">>) >>

\* the if / elif / else on $OPERATION_TYPE
SelectAllowedTools(s, type) ==
    IF type = "auto-tagging" THEN TaggingTools
    ELSE IF type = "pr-review" \/ type = "manual-pr-review"
    THEN (IF s = "logged" THEN ReviewToolsLogged ELSE ReviewToolsFixed)
    ELSE FullTools

(***************************************************************************)
(* Text files and the commands the scripts run on them.  A file is its     *)
(* lines and whether the last line ends with a newline; a line is a        *)
(* sequence of characters.  The empty file has no line.                    *)
(***************************************************************************)
File(lines, terminated) == [lines |-> lines, terminated |-> terminated]

EmptyFile == File(<<>>, TRUE)

IsPrefix(pre, s) == Len(pre) <= Len(s) /\ SubSeq(s, 1, Len(pre)) = pre

\* the patterns ^Tool: ^Using ^Running ^Executing
ToolPatterns ==
    { <<"T", "o", "o", "l", ":">>, <<"U", "s", "i", "n", "g">>,
      <<"R", "u", "n", "n", "i", "n", "g">>,
      <<"E", "x", "e", "c", "u", "t", "i", "n", "g">> }

MatchesToolPattern(line) == \E pat \in ToolPatterns : IsPrefix(pat, line)

\* grep -n PATTERNS file | cut -d: -f1: the numbers of the matching lines
RECURSIVE GrepLineNumbers(_, _)
GrepLineNumbers(lines, n) ==
    IF lines = <<>> THEN <<>>
    ELSE (IF MatchesToolPattern(Head(lines)) THEN <<n>> ELSE <<>>)
         \o GrepLineNumbers(Tail(lines), n + 1)

\* head -1 in place of tail -1
FirstOrEmpty(numbers) == IF numbers = <<>> THEN 0 ELSE numbers[1]

\* tail -1: the last of them, or nothing (0 stands for the empty string)
LastOrEmpty(numbers) == IF numbers = <<>> THEN 0 ELSE numbers[Len(numbers)]

\* tail -n +k file
TailFrom(f, k) ==
    IF k > Len(f.lines) THEN EmptyFile
    ELSE File(SubSeq(f.lines, k, Len(f.lines)), f.terminated)

NonEmptyLine(line) == line # <<>>

\* grep -v "^$": the lines that are not empty, each ended by a newline; the
\* exit status is 1 when no line is selected
GrepNonEmpty(f) ==
    LET kept == SelectSeq(f.lines, NonEmptyLine)
    IN  [out |-> File(kept, TRUE), status |-> IF kept = <<>> THEN 1 ELSE 0]

\* the extraction of the response from the output, given $last_tool_line:
\* tail -n +$((last_tool_line + 1)) | grep -v "^$", or cat
ExtractResponse(f, n) ==
    IF n # 0 THEN GrepNonEmpty(TailFrom(f, n + 1)) ELSE [out |-> f, status |-> 0]

\* what a command writing the file f adds to the stream out
Write(out, f) ==
    IF f.lines = <<>> THEN out
    ELSE IF out.lines = <<>> \/ out.terminated
    THEN File(out.lines \o f.lines, f.terminated)
    ELSE File(SubSeq(out.lines, 1, Len(out.lines) - 1)
                \o <<out.lines[Len(out.lines)] \o Head(f.lines)>>
                \o Tail(f.lines),
              f.terminated)

\* echo "line"
Echo(out, line) == Write(out, File(<<line>>, TRUE))

\* [ -s file ]
HasSize(f) == f.lines # <<>>

ResponseStart == <<"__CLAUDE_RESPONSE_START__">>

ResponseEnd == <<"__CLAUDE_RESPONSE_END__">>

NoResponseExtracted ==
    <<"No response content extracted from Claude. Please check the system logs.">>

(***************************************************************************)
(* Runs of the entrypoint                                                  *)
(***************************************************************************)
OperationTypes == {"auto-tagging", "pr-review", "manual-pr-review", "default", "auto_tag", ""}

MaxOutputLines == 3

OutputLines ==
    { <<>>, <<" ">>, <<"o", "k">>,
      <<"T", "o", "o", "l", ":", " ", "x">>,
      <<"U", "s", "i", "n", "g", "s">>,
      <<" ", "R", "u", "n", "n", "i", "n", "g">> }

\* the outputs of the assistant: up to MaxOutputLines lines, the last of
\* which may lack its newline
OutputFiles ==
    LET seqs == UNION {[1..n -> OutputLines] : n \in 0..MaxOutputLines}
    IN  {File(l, TRUE) : l \in seqs}
        \cup {File(l, FALSE) : l \in {m \in seqs : m # <<>> /\ m[Len(m)] # <<>>}}

ExitStatuses == {0, 1}

EntrypointInit ==
    /\ script = "none"
    /\ operationType = ""
    /\ allowedTools = <<>>
    /\ claudeStatus = 0
    /\ fullOutput = EmptyFile
    /\ lastToolLine = 0
    /\ responseFile = EmptyFile
    /\ stdout = EmptyFile
    /\ epc = "idle"
    /\ exitCode = -1

\* the container starts one of the scripts with its environment
StartContainer ==
    /\ epc = "idle"
    /\ \E s \in Scripts : script' = s
    /\ \E type \in OperationTypes : operationType' = type
    /\ epc' = "tools"
    /\ UNCHANGED <<allowedTools, claudeStatus, fullOutput, lastToolLine, responseFile,
                   stdout, exitCode>>
    /\ UNCHANGED notEntrypoint

\* Determine allowed tools based on operation type
DetermineAllowedTools ==
    /\ epc = "tools"
    /\ allowedTools' = SelectAllowedTools(script, operationType)
    /\ epc' = "claude"
    /\ UNCHANGED <<script, operationType, claudeStatus, fullOutput, lastToolLine,
                   responseFile, stdout, exitCode>>
    /\ UNCHANGED notEntrypoint

\* the assistant runs with its output captured in a file; under set -e a
\* non-zero status ends the fixed script there
RunClaude ==
    /\ epc = "claude"
    /\ \E out \in OutputFiles, st \in ExitStatuses :
          /\ fullOutput' = out
          /\ claudeStatus' = st
          /\ IF script = "fixed" /\ st # 0
             THEN epc' = "exited" /\ exitCode' = st
             ELSE epc' = "extract" /\ UNCHANGED exitCode
    /\ UNCHANGED <<script, operationType, allowedTools, lastToolLine, responseFile, stdout>>
    /\ UNCHANGED notEntrypoint

\* last_tool_line=$(grep -n ... | tail -1 | cut -d: -f1); the logged script
\* then writes the extracted response to $RESPONSE_FILE
LocateLastToolLine ==
    /\ epc = "extract"
    /\ LET n == LastOrEmpty(GrepLineNumbers(fullOutput.lines, 1))
       IN  /\ lastToolLine' = n
           /\ responseFile' = IF script = "logged" THEN ExtractResponse(fullOutput, n).out
                              ELSE responseFile
    /\ epc' = "start"
    /\ UNCHANGED <<script, operationType, allowedTools, claudeStatus, fullOutput, stdout,
                   exitCode>>
    /\ UNCHANGED notEntrypoint

\* echo "__CLAUDE_RESPONSE_START__"
EmitStart ==
    /\ epc = "start"
    /\ stdout' = Echo(stdout, ResponseStart)
    /\ epc' = "body"
    /\ UNCHANGED <<script, operationType, allowedTools, claudeStatus, fullOutput,
                   lastToolLine, responseFile, exitCode>>
    /\ UNCHANGED notEntrypoint

\* the response: the logged script writes $RESPONSE_FILE when it has a size
\* and a message otherwise; the fixed script extracts straight to stdout,
\* and under set -e ends when grep -v selects no line
EmitResponse ==
    /\ epc = "body"
    /\ IF script = "logged"
       THEN /\ stdout' = IF HasSize(responseFile) THEN Write(stdout, responseFile)
                         ELSE Echo(stdout, NoResponseExtracted)
            /\ epc' = "end"
            /\ UNCHANGED exitCode
       ELSE LET r == ExtractResponse(fullOutput, lastToolLine)
            IN  /\ stdout' = Write(stdout, r.out)
                /\ IF r.status # 0
                   THEN epc' = "exited" /\ exitCode' = r.status
                   ELSE epc' = "end" /\ UNCHANGED exitCode
    /\ UNCHANGED <<script, operationType, allowedTools, claudeStatus, fullOutput,
                   lastToolLine, responseFile>>
    /\ UNCHANGED notEntrypoint

\* echo "__CLAUDE_RESPONSE_END__", clean up, final log entry, exit
EmitEnd ==
    /\ epc = "end"
    /\ stdout' = Echo(stdout, ResponseEnd)
    /\ epc' = "exited"
    /\ exitCode' = 0
    /\ UNCHANGED <<script, operationType, allowedTools, claudeStatus, fullOutput,
                   lastToolLine, responseFile>>
    /\ UNCHANGED notEntrypoint

EntrypointNext ==
    \/ StartContainer
    \/ DetermineAllowedTools
    \/ RunClaude
    \/ LocateLastToolLine
    \/ EmitStart
    \/ EmitResponse
    \/ EmitEnd

(***************************************************************************)
(* SlackNotificationService                                                *)
(***************************************************************************)
\* process.env.X === v
EnvIs(e, name, v) == name \in DOMAIN e /\ e[name] = v

\* an enable flag that is on unless the variable is 'false'
EnabledFlagDefaultOn(e) == ~EnvIs(e, "SLACK_NOTIFICATION_ENABLED", "false")

\* process.env.SLACK_NOTIFICATION_ENABLED === 'true'
EnabledFlag(e) == EnvIs(e, "SLACK_NOTIFICATION_ENABLED", "true")

\* a start toggle that is on unless the variable is 'false'
NotifyOnStartDefaultOn(e) == ~EnvIs(e, "SLACK_NOTIFY_ON_START", "false")

\* process.env.SLACK_NOTIFY_ON_START === 'true'
NotifyOnStart(e) == EnvIs(e, "SLACK_NOTIFY_ON_START", "true")

\* '5000'
DefaultMinDuration == <<"5", "0", "0", "0">>

NotConstructed == [constructed |-> FALSE]

\* the constructor: the fields read from the environment; the client exists
\* when the service is enabled and the bot token is a non-empty string
Constructor(e) ==
    [constructed |-> TRUE,
     enabled |-> EnabledFlag(e),
     notifyOnSuccess |-> ~EnvIs(e, "SLACK_NOTIFY_ON_SUCCESS", "false"),
     notifyOnError |-> ~EnvIs(e, "SLACK_NOTIFY_ON_ERROR", "false"),
     minDurationMs |-> parseInt(IF "SLACK_NOTIFY_MIN_DURATION_MS" \in DOMAIN e
                                THEN e.SLACK_NOTIFY_MIN_DURATION_MS
                                ELSE DefaultMinDuration),
     client |-> EnabledFlag(e) /\ "SLACK_BOT_TOKEN" \in DOMAIN e /\ e.SLACK_BOT_TOKEN # ""]

\* isEnabled(): this.enabled && this.client !== null
isEnabled(service) == service.enabled /\ service.client

\* a < b for a number a and the result b of parseInt: false when b is NaN
LessThan(a, b) == ~b.isNaN /\ a < b.value

\* result.duration ?? (Date.now() - context.startTime)
DurationOf(taskResult, elapsed) ==
    IF "duration" \in DOMAIN taskResult THEN taskResult.duration ELSE elapsed

\* !result.error && duration < this.minDurationMs
QuickOperation(service, taskResult, elapsed) ==
    /\ "error" \notin DOMAIN taskResult
    /\ LessThan(DurationOf(taskResult, elapsed), service.minDurationMs)

\* context.command.substring(...) throws when the context has no command
FormatThrows(context) == "command" \notin DOMAIN context

\* a try block whose failures reach the caller
TryPostUncaught(formatThrows, delivered) ==
    IF formatThrows THEN [path |-> "format_threw", posted |-> FALSE, settled |-> "rejected"]
    ELSE IF delivered THEN [path |-> "posted", posted |-> TRUE, settled |-> "resolved"]
    ELSE [path |-> "post_failed", posted |-> TRUE, settled |-> "rejected"]

\* try { format the message; await chat.postMessage } catch { log }: what
\* became of the call
TryPost(formatThrows, delivered) ==
    IF formatThrows THEN [path |-> "format_threw", posted |-> FALSE, settled |-> "resolved"]
    ELSE IF delivered THEN [path |-> "posted", posted |-> TRUE, settled |-> "resolved"]
    ELSE [path |-> "post_failed", posted |-> TRUE, settled |-> "resolved"]

\* an early return
Skipped(why) == [path |-> why, posted |-> FALSE, settled |-> "resolved"]

notifyTaskComplete(service, context, taskResult, elapsed, delivered) ==
    IF ~service.client \/ ~service.enabled \/ ~service.notifyOnSuccess
    THEN Skipped("off")
    ELSE IF QuickOperation(service, taskResult, elapsed)
    THEN Skipped("quick")
    ELSE TryPost(FormatThrows(context), delivered)

\* formatErrorMessage reads context.command only when it is set
notifyTaskError(service, context, delivered) ==
    IF ~service.client \/ ~service.enabled \/ ~service.notifyOnError
    THEN Skipped("off")
    ELSE TryPost(FALSE, delivered)

notifyTaskStart(service, e, context, delivered) ==
    IF ~service.client \/ ~service.enabled
    THEN Skipped("off")
    ELSE IF ~NotifyOnStart(e)
    THEN Skipped("off")
    ELSE TryPost(FormatThrows(context), delivered)

(***************************************************************************)
(* Environments and calls of the notification service                      *)
(***************************************************************************)
MaxCalls == 2

NoVariables == [name \in {} |-> ""]

\* the variable is unset or has one of the values
Setting(name, values) == {NoVariables} \cup {name :> v : v \in values}

NotifierEnvs ==
    { a @@ b @@ c @@ d @@ f @@ g :
        a \in Setting("SLACK_NOTIFICATION_ENABLED", {"true", "false"}),
        b \in Setting("SLACK_BOT_TOKEN", {"", "xoxb"}),
        c \in Setting("SLACK_NOTIFY_ON_SUCCESS", {"true", "false"}),
        d \in Setting("SLACK_NOTIFY_ON_ERROR", {"false"}),
        f \in Setting("SLACK_NOTIFY_ON_START", {"true", "false"}),
        g \in Setting("SLACK_NOTIFY_MIN_DURATION_MS",
                      {<<"1", "0", "0", "0">>, <<"a", "b", "c">>}) }

\* Date.now() - context.startTime; it is read only for a result without
\* duration
ElapsedTimes == {999, 5000}

ElapsedTimesFor(taskResult) ==
    IF "duration" \in DOMAIN taskResult THEN {5000} ELSE ElapsedTimes

TaskDurations == {0, 999, 1000, 4999, 5000}

TaskContexts == {[user |-> "u"], [user |-> "u", command |-> "c"]}

TaskResults ==
    { s @@ d @@ x :
        s \in {[success |-> TRUE], [success |-> FALSE]},
        d \in {NoVariables} \cup {[duration |-> t] : t \in TaskDurations},
        x \in {NoVariables, [error |-> "Error"]} }

NoCall == [kind |-> "none"]

NotifierInit ==
    /\ nenv = NoVariables
    /\ svc = NotConstructed
    /\ lastCall = NoCall
    /\ slackPosts = <<>>
    /\ ncalls = 0

\* new SlackNotificationService() under some environment
Construct ==
    /\ ~svc.constructed
    /\ \E e \in NotifierEnvs :
          /\ nenv' = e
          /\ svc' = Constructor(e)
    /\ UNCHANGED <<lastCall, slackPosts, ncalls>>
    /\ UNCHANGED notNotifier

\* the bookkeeping of a call that ended as outcome
Called(kind, context, taskResult, elapsed, outcome) ==
    /\ lastCall' = [kind |-> kind, context |-> context, result |-> taskResult,
                    elapsed |-> elapsed, outcome |-> outcome]
    /\ slackPosts' = IF outcome.posted THEN Append(slackPosts, kind) ELSE slackPosts
    /\ ncalls' = ncalls + 1

NotifyTaskStart ==
    /\ svc.constructed
    /\ ncalls < MaxCalls
    /\ \E context \in TaskContexts, delivered \in BOOLEAN :
          Called("start", context, NoVariables, 0,
                 notifyTaskStart(svc, nenv, context, delivered))
    /\ UNCHANGED <<nenv, svc>>
    /\ UNCHANGED notNotifier

NotifyTaskComplete ==
    /\ svc.constructed
    /\ ncalls < MaxCalls
    /\ \E context \in TaskContexts, taskResult \in TaskResults, delivered \in BOOLEAN :
        \E elapsed \in ElapsedTimesFor(taskResult) :
          Called("complete", context, taskResult, elapsed,
                 notifyTaskComplete(svc, context, taskResult, elapsed, delivered))
    /\ UNCHANGED <<nenv, svc>>
    /\ UNCHANGED notNotifier

NotifyTaskError ==
    /\ svc.constructed
    /\ ncalls < MaxCalls
    /\ \E context \in TaskContexts, elapsed \in ElapsedTimes, delivered \in BOOLEAN :
          Called("error", context, NoVariables, elapsed,
                 notifyTaskError(svc, context, delivered))
    /\ UNCHANGED <<nenv, svc>>
    /\ UNCHANGED notNotifier

NotifierNext ==
    \/ Construct
    \/ NotifyTaskStart
    \/ NotifyTaskComplete
    \/ NotifyTaskError

(***************************************************************************)
(* Message formatting of the SlackNotificationService                      *)
(***************************************************************************)
RECURSIVE NumberToString(_)
\* `${n}` for a non-negative integer: its decimal digits
NumberToString(n) ==
    LET digit == <<"0", "1", "2", "3", "4", "5", "6", "7", "8", "9">>[(n % 10) + 1]
    IN  IF n < 10 THEN <<digit>> ELSE NumberToString(n \div 10) \o <<digit>>

\* a duration formatter that prints the minutes without reducing them
formatDurationWholeMinutes(ms) ==
    LET seconds == ms \div 1000
        minutes == seconds \div 60
        hours == minutes \div 60
    IN  IF hours > 0
        THEN NumberToString(hours) \o <<"h", " ">> \o NumberToString(minutes) \o <<"m">>
        ELSE IF minutes > 0
        THEN NumberToString(minutes) \o <<"m", " ">> \o NumberToString(seconds % 60) \o <<"s">>
        ELSE NumberToString(seconds) \o <<"s">>

formatDuration(ms) ==
    LET seconds == ms \div 1000
        minutes == seconds \div 60
        hours == minutes \div 60
    IN  IF hours > 0
        THEN NumberToString(hours) \o <<"h", " ">> \o NumberToString(minutes % 60) \o <<"m">>
        ELSE IF minutes > 0
        THEN NumberToString(minutes) \o <<"m", " ">> \o NumberToString(seconds % 60) \o <<"s">>
        ELSE NumberToString(seconds) \o <<"s">>

Ellipsis == <<".", ".", ".">>

\* `${s.substring(0, limit)}${s.length > limit ? '...' : ''}`
Truncate(s, limit) ==
    SubSeq(s, 1, IF Len(s) < limit THEN Len(s) ELSE limit)
        \o (IF Len(s) > limit THEN Ellipsis ELSE <<>>)

RECURSIVE SplitLines(_)
\* s.split('\n')
SplitLines(s) ==
    IF \A i \in 1..Len(s) : s[i] # "\n" THEN <<s>>
    ELSE LET i == CHOOSE k \in 1..Len(s) :
                      s[k] = "\n" /\ \A j \in 1..(k - 1) : s[j] # "\n"
         IN  <<SubSeq(s, 1, i - 1)>> \o SplitLines(SubSeq(s, i + 1, Len(s)))

RECURSIVE JoinLines(_)
\* lines.join('\n')
JoinLines(lines) ==
    IF lines = <<>> THEN <<>>
    ELSE IF Len(lines) = 1 THEN lines[1]
    ELSE lines[1] \o <<"\n">> \o JoinLines(Tail(lines))

\* lines.slice(0, n)
Slice(lines, n) == SubSeq(lines, 1, IF Len(lines) < n THEN Len(lines) ELSE n)

CommandLimit == 100

ErrorCommandLimit == 200

PreviewLimit == 500

StackLineLimit == 5

\* the texts formatSuccessMessage embeds in its blocks
formatSuccessMessage(context, taskResult, elapsed) ==
    [duration |-> formatDuration(DurationOf(taskResult, elapsed)),
     command |-> Truncate(context.command, CommandLimit)]
    @@ (IF "responsePreview" \in DOMAIN taskResult /\ taskResult.responsePreview # <<>>
        THEN [preview |-> Truncate(taskResult.responsePreview, PreviewLimit)]
        ELSE NoVariables)

\* the texts formatErrorMessage embeds in its blocks
formatErrorMessage(context, error, elapsed) ==
    [duration |-> formatDuration(elapsed)]
    @@ (IF context.command # <<>>
        THEN [command |-> Truncate(context.command, ErrorCommandLimit)]
        ELSE NoVariables)
    @@ (IF "stack" \in DOMAIN error /\ error.stack # <<>>
        THEN [stack |-> JoinLines(Slice(SplitLines(error.stack), StackLineLimit))]
        ELSE NoVariables)

\* the text notifyTaskStart embeds in its block
formatStartMessage(context) ==
    [command |-> Truncate(context.command, CommandLimit)]

(***************************************************************************)
(* Calls of the formatters                                                 *)
(***************************************************************************)
SampleSeconds ==
    (0..125) \cup {3599, 3600, 3601, 3659, 3660, 7199, 7200, 7325, 35999, 36000,
                   86399, 86400, 360000}

SampleDurations == { 1000 * s + r : s \in SampleSeconds, r \in {0, 999} }

\* a text of n characters
TextOfLength(n) == [i \in 1..n |-> "c"]

\* a stack trace of n lines
StackOfLines(n) == JoinLines([i \in 1..n |-> <<"a", "t">>])

SampleCommands == { TextOfLength(n) : n \in {0, 1, 99, 100, 101, 199, 200, 201} }

SamplePreviews == { TextOfLength(n) : n \in {0, 1, 499, 500, 501} }

SampleStacks == { StackOfLines(n) : n \in {0, 1, 4, 5, 6, 7} }

MessageDurations == {45000, 125000}

FormatContexts == { [command |-> c] : c \in SampleCommands }

FormatResults ==
    { d @@ p :
        d \in {NoVariables} \cup { [duration |-> t] : t \in MessageDurations },
        p \in {NoVariables} \cup { [responsePreview |-> t] : t \in SamplePreviews } }

FormatErrors ==
    {[message |-> "Error"]} \cup { [message |-> "Error", stack |-> t] : t \in SampleStacks }

NoFormatCall == [kind |-> "none"]

FormatterInit ==
    /\ formatCall = NoFormatCall
    /\ formatted = NoVariables

FormatDuration ==
    \E ms \in SampleDurations :
        /\ formatCall' = [kind |-> "duration", ms |-> ms]
        /\ formatted' = [duration |-> formatDuration(ms)]
        /\ UNCHANGED notFormatter

FormatSuccessMessage ==
    \E context \in FormatContexts, taskResult \in FormatResults, elapsed \in ElapsedTimes :
        /\ formatCall' = [kind |-> "success", context |-> context,
                          result |-> taskResult, elapsed |-> elapsed]
        /\ formatted' = formatSuccessMessage(context, taskResult, elapsed)
        /\ UNCHANGED notFormatter

FormatErrorMessage ==
    \E context \in FormatContexts, error \in FormatErrors, elapsed \in ElapsedTimes :
        /\ formatCall' = [kind |-> "error", context |-> context,
                          error |-> error, elapsed |-> elapsed]
        /\ formatted' = formatErrorMessage(context, error, elapsed)
        /\ UNCHANGED notFormatter

FormatStartMessage ==
    \E context \in FormatContexts :
        /\ formatCall' = [kind |-> "start", context |-> context]
        /\ formatted' = formatStartMessage(context)
        /\ UNCHANGED notFormatter

FormatterNext ==
    \/ FormatDuration
    \/ FormatSuccessMessage
    \/ FormatErrorMessage
    \/ FormatStartMessage

(***************************************************************************)
(* Session logs of the container entrypoint                                *)
(***************************************************************************)
\* a number printed with at least two digits (%H, %M, %S)
TwoDigits(n) == IF n < 10 THEN <<"0">> \o NumberToString(n) ELSE NumberToString(n)

\* the day on which the model's clock runs (%Y%m%d)
Today == <<"2", "0", "2", "5", "0", "1", "0", "1">>

\* $(date +%Y%m%d_%H%M%S) at tick t of the clock
Timestamp(t) ==
    LET seconds == t \div 2
    IN  Today \o <<"_">> \o TwoDigits(seconds \div 3600)
            \o TwoDigits((seconds \div 60) % 60) \o TwoDigits(seconds % 60)

\* ${REPO_FULL_NAME//\//_}
ReplaceSlashes(s) == [i \in 1..Len(s) |-> IF s[i] = "/" THEN "_" ELSE s[i]]

\* CONTAINER_NAME
ContainerName(repoFullName, issueNumber, timestamp) ==
    ReplaceSlashes(repoFullName) \o <<"_">> \o issueNumber \o <<"_">> \o timestamp

LogDir ==
    <<"/", "l", "o", "g", "s", "/", "c", "l", "a", "u", "d", "e", "-",
      "s", "e", "s", "s", "i", "o", "n", "s">>

\* LOG_FILE
LogFile(repoFullName, issueNumber, timestamp) ==
    LogDir \o <<"/">> \o ContainerName(repoFullName, issueNumber, timestamp)
        \o <<".", "l", "o", "g">>

MaxSessions == 2

MaxTicks == 3

Containers == 1..MaxSessions

SessionRepositories == { <<"o", "/", "r">>, <<"o", "/", "s">> }

SessionIssues == { <<"7">>, <<"1", "2">> }

NoSession == [running |-> FALSE]

SessionInit ==
    /\ clock = 0
    /\ sessions = [c \in Containers |-> NoSession]

\* time passes
Tick ==
    /\ clock < MaxTicks
    /\ clock' = clock + 1
    /\ UNCHANGED sessions
    /\ UNCHANGED notSession

\* a container starts its entrypoint for a repository and an issue
StartSession ==
    \E c \in Containers, repoFullName \in SessionRepositories,
       issueNumber \in SessionIssues :
        /\ ~sessions[c].running
        /\ sessions' =
               [sessions EXCEPT ![c] =
                   [running |-> TRUE, repoFullName |-> repoFullName,
                    issueNumber |-> issueNumber, started |-> clock,
                    logFile |-> LogFile(repoFullName, issueNumber, Timestamp(clock))]]
        /\ UNCHANGED clock
        /\ UNCHANGED notSession

\* the entrypoint of a container ends
EndSession ==
    \E c \in Containers :
        /\ sessions[c].running
        /\ sessions' = [sessions EXCEPT ![c] = NoSession]
        /\ UNCHANGED clock
        /\ UNCHANGED notSession

SessionNext ==
    \/ Tick
    \/ StartSession
    \/ EndSession

(***************************************************************************)
(* The GitHub service (services/githubService.ts)                          *)
(***************************************************************************)
\* s.includes(sub) for a string sub
Includes(s, sub) ==
    \E i \in 0..(Len(s) - Len(sub)) : SubSeq(s, i + 1, i + Len(sub)) = sub

ClassicTokenMark == <<"g", "h", "p", "_">>

FineGrainedTokenMark == <<"g", "i", "t", "h", "u", "b", "_", "p", "a", "t", "_">>

\* getOctokit() !== null: the cached instance, or one made from a token that
\* carries one of the two marks
getOctokit(cached, token) ==
    \/ cached
    \/ /\ token # <<>>
       /\ Includes(token, ClassicTokenMark) \/ Includes(token, FineGrainedTokenMark)

\* process.env.NODE_ENV === 'test' || !client
TestMode(e, client) == e.NODE_ENV = "test" \/ ~client

\* a pattern without its anchors: some safe character occurs
repoPatternUnanchored(s) ==
    \E i \in 1..Len(s) : s[i] \in AlphaNumerics \cup {".", "_", "-"}

\* /^[a-zA-Z0-9._-]+$/.test(s)
repoPattern(s) == RepoRegexTest(s)

Threw == [kind |-> "threw"]

Returned(value) == [kind |-> "returned", value |-> value]

\* what a call did: its outcome, the requests it made, the labels it left
Effect(outcome, requests, labels) ==
    [outcome |-> outcome, requests |-> requests, labels |-> labels]

ApiRequest(method, o, r, arg, httpStatus) ==
    [method |-> method, owner |-> o, repo |-> r, arg |-> arg, status |-> httpStatus]

\* validateGitHubParams: FALSE when it throws
validateGitHubParams(repoOwner, repoName, issueNumber) ==
    /\ repoPattern(repoOwner) /\ repoPattern(repoName)
    /\ issueNumber > 0

\* createIssue(owner, repo, { title, body, labels })
createIssue(client, o, r, labels, apiOk) ==
    IF ~validateGitHubParams(o, r, 1) THEN Effect(Threw, <<>>, labels)
    ELSE IF ~client THEN Effect(Threw, <<>>, labels)
    ELSE IF apiOk
    THEN Effect(Returned("issue"), <<ApiRequest("issues.create", o, r, <<>>, 201)>>, labels)
    ELSE Effect(Threw, <<ApiRequest("issues.create", o, r, <<>>, 500)>>, labels)

\* getPullRequestDetails({ repoOwner, repoName, prNumber })
getPullRequestDetails(e, client, o, r, labels, apiOk) ==
    IF ~repoPattern(o) \/ ~repoPattern(r) THEN Effect(Returned("null"), <<>>, labels)
    ELSE IF TestMode(e, client) THEN Effect(Returned("details"), <<>>, labels)
    ELSE IF apiOk
    THEN Effect(Returned("details"), <<ApiRequest("pulls.get", o, r, <<>>, 200)>>, labels)
    ELSE Effect(Returned("null"), <<ApiRequest("pulls.get", o, r, <<>>, 500)>>, labels)

DefaultBotUsername == "ClaudeBot"

CommitMark == <<"c", "o", "m", "m", "i", "t", ":", " ">>

\* a match that does not look at the author of the review
ReviewMatchesAnyAuthor(review, botUsername, commitSha) ==
    "body" \in DOMAIN review /\ Includes(review.body, CommitMark \o commitSha)

\* review.user?.login === botUsername && review.body?.includes(`commit: ${commitSha}`)
ReviewMatches(review, botUsername, commitSha) ==
    /\ "login" \in DOMAIN review /\ review.login = botUsername
    /\ "body" \in DOMAIN review /\ Includes(review.body, CommitMark \o commitSha)

\* hasReviewedPRAtCommit({ repoOwner, repoName, prNumber, commitSha }); the
\* request is answered with the reviews, or fails when apiOk is FALSE
hasReviewedPRAtCommit(e, client, o, r, commitSha, labels, apiOk, reviews) ==
    IF ~repoPattern(o) \/ ~repoPattern(r) THEN Effect(Returned("false"), <<>>, labels)
    ELSE IF TestMode(e, client) THEN Effect(Returned("false"), <<>>, labels)
    ELSE IF ~apiOk
    THEN Effect(Returned("false"),
                <<ApiRequest("pulls.listReviews", o, r, <<>>, 500)>>, labels)
    ELSE LET botUsername == EnvOr(e, "BOT_USERNAME", DefaultBotUsername)
             found == \E i \in 1..Len(reviews) :
                          ReviewMatches(reviews[i], botUsername, commitSha)
         IN  Effect(Returned(IF found THEN "true" ELSE "false"),
                    <<ApiRequest("pulls.listReviews", o, r, reviews, 200)>>, labels)

\* the elements of a sequence
Elements(s) == { s[i] : i \in 1..Len(s) }

RECURSIVE RemoveLabels(_, _, _, _, _, _)
\* the loop over labelsToRemove from its i-th label on: a request fails with
\* 500 at the indices in failing, with 404 when the label is not on the pull
\* request, and removes the label otherwise; no failure leaves the loop
RemoveLabels(o, r, labels, labelsToRemove, i, failing) ==
    IF i > Len(labelsToRemove) THEN [labels |-> labels, requests |-> <<>>]
    ELSE LET name == labelsToRemove[i]
             httpStatus == IF i \in failing THEN 500
                           ELSE IF name \notin labels THEN 404 ELSE 200
             rest == RemoveLabels(o, r, IF httpStatus = 200 THEN labels \ {name} ELSE labels,
                                  labelsToRemove, i + 1, failing)
         IN  [labels |-> rest.labels,
              requests |-> <<ApiRequest("issues.removeLabel", o, r, <<name>>, httpStatus)>>
                               \o rest.requests]

\* a managePRLabels that adds before it removes
managePRLabelsAddFirst(e, client, o, r, labels, labelsToAdd, labelsToRemove, failing, addOk) ==
    IF ~repoPattern(o) \/ ~repoPattern(r) THEN Effect(Threw, <<>>, labels)
    ELSE IF TestMode(e, client) THEN Effect(Returned("void"), <<>>, labels)
    ELSE IF labelsToAdd # <<>> /\ ~addOk
    THEN Effect(Threw, <<ApiRequest("issues.addLabels", o, r, labelsToAdd, 500)>>, labels)
    ELSE LET added == IF labelsToAdd # <<>>
                      THEN <<ApiRequest("issues.addLabels", o, r, labelsToAdd, 200)>>
                      ELSE <<>>
             removed == RemoveLabels(o, r, labels \cup Elements(labelsToAdd),
                                     labelsToRemove, 1, failing)
         IN  Effect(Returned("void"), added \o removed.requests, removed.labels)

\* managePRLabels({ repoOwner, repoName, prNumber, labelsToAdd, labelsToRemove })
managePRLabels(e, client, o, r, labels, labelsToAdd, labelsToRemove, failing, addOk) ==
    IF ~repoPattern(o) \/ ~repoPattern(r) THEN Effect(Threw, <<>>, labels)
    ELSE IF TestMode(e, client) THEN Effect(Returned("void"), <<>>, labels)
    ELSE LET removed == RemoveLabels(o, r, labels, labelsToRemove, 1, failing)
         IN  IF labelsToAdd = <<>>
             THEN Effect(Returned("void"), removed.requests, removed.labels)
             ELSE IF addOk
             THEN Effect(Returned("void"),
                         removed.requests
                             \o <<ApiRequest("issues.addLabels", o, r, labelsToAdd, 200)>>,
                         removed.labels \cup Elements(labelsToAdd))
             ELSE Effect(Threw,
                         removed.requests
                             \o <<ApiRequest("issues.addLabels", o, r, labelsToAdd, 500)>>,
                         removed.labels)

(***************************************************************************)
(* Environments and calls of the GitHub service                            *)
(***************************************************************************)
MaxLabels == 2

MaxReviews == 2

GithubTokens ==
    { <<>>, <<"x">>, ClassicTokenMark \o <<"1">>, FineGrainedTokenMark \o <<"1">> }

GithubEnvs ==
    { [NODE_ENV |-> n, token |-> t] @@ b :
        n \in {"test", "production"}, t \in GithubTokens,
        b \in Setting("BOT_USERNAME", {"other"}) }

Labels == {"x", "y"}

\* sequences of at most n elements of a set
UpTo(S, n) == UNION { [1..k -> S] : k \in 0..n }

\* owner and repository names, safe and unsafe
GithubNames ==
    { <<"a">>, <<"a", ".", "o">>, <<"r", "-", "1", "_">>, <<".", ".">>,
      <<>>, <<"a", "/", "o">>, <<"a", " ">>, <<"a", "\n">>, <<"\n", "a">>,
      <<"#">>, <<"a", ":", "o">> }

\* the names passed to the calls that take many other arguments
FewGithubNames == { <<"a", ".", "o">>, <<"a", "/", "o">>, <<>> }

FewRepositories ==
    { <<o, r>> \in FewGithubNames \X FewGithubNames : o = <<"a", ".", "o">> \/ r = o }

CommitShas == { <<"a", "b">>, <<"a", "b", "c">> }

SampleReviews ==
    { [login |-> "ClaudeBot", body |-> CommitMark \o <<"a", "b">>],
      [login |-> "ClaudeBot", body |-> <<"o", "k", " ">> \o CommitMark \o <<"a", "b", "c">>],
      [login |-> "other", body |-> CommitMark \o <<"a", "b">>],
      [login |-> "ClaudeBot", body |-> <<"o", "k">>],
      [body |-> CommitMark \o <<"a", "b">>],
      [login |-> "ClaudeBot"] }

NoGithubCall == [op |-> "none"]

GithubInit ==
    /\ ghEnv = [NODE_ENV |-> "production", token |-> <<>>]
    /\ octokit = FALSE
    /\ remoteLabels = {}
    /\ ghCall = NoGithubCall
    /\ apiLog = <<>>

\* the situation in which the service is called: its environment, whether
\* an earlier call has left an Octokit instance, the labels of the pull request
StartService ==
    /\ ghCall = NoGithubCall
    /\ \E e \in GithubEnvs, cached \in BOOLEAN, labels \in SUBSET Labels :
        /\ ghEnv' = e
        /\ octokit' = cached
        /\ remoteLabels' = labels
    /\ UNCHANGED <<ghCall, apiLog>>
    /\ UNCHANGED notGithub

\* a call has run to its end
Completed(call, effect) ==
    /\ ghCall' = call @@ [outcome |-> effect.outcome]
    /\ apiLog' = effect.requests
    /\ remoteLabels' = effect.labels
    /\ UNCHANGED ghEnv
    /\ UNCHANGED notGithub

\* the cached instance after a call that validated the names o and r first
OctokitAfter(o, r) ==
    IF repoPattern(o) /\ repoPattern(r) THEN getOctokit(octokit, ghEnv.token) ELSE octokit

CallCreateIssue ==
    /\ ghCall = NoGithubCall
    /\ \E o \in GithubNames, r \in GithubNames, apiOk \in BOOLEAN :
        /\ octokit' = OctokitAfter(o, r)
        /\ Completed([op |-> "createIssue", owner |-> o, repo |-> r],
                     createIssue(getOctokit(octokit, ghEnv.token), o, r, remoteLabels, apiOk))

CallGetPullRequestDetails ==
    /\ ghCall = NoGithubCall
    /\ \E o \in GithubNames, r \in GithubNames, apiOk \in BOOLEAN :
        /\ octokit' = OctokitAfter(o, r)
        /\ Completed([op |-> "getPullRequestDetails", owner |-> o, repo |-> r],
                     getPullRequestDetails(ghEnv, getOctokit(octokit, ghEnv.token), o, r,
                                           remoteLabels, apiOk))

CallHasReviewedPRAtCommit ==
    /\ ghCall = NoGithubCall
    /\ \E name \in FewRepositories, commitSha \in CommitShas, apiOk \in BOOLEAN,
       reviews \in UpTo(SampleReviews, MaxReviews) :
        /\ apiOk \/ reviews = <<>>
        /\ octokit' = OctokitAfter(name[1], name[2])
        /\ Completed([op |-> "hasReviewedPRAtCommit", owner |-> name[1], repo |-> name[2],
                      commitSha |-> commitSha],
                     hasReviewedPRAtCommit(ghEnv, getOctokit(octokit, ghEnv.token),
                                           name[1], name[2], commitSha, remoteLabels,
                                           apiOk, reviews))

CallManagePRLabels ==
    /\ ghCall = NoGithubCall
    /\ \E name \in FewRepositories, labelsToAdd \in UpTo(Labels, MaxLabels),
       labelsToRemove \in UpTo(Labels, MaxLabels), addOk \in BOOLEAN :
        \E failing \in SUBSET (1..Len(labelsToRemove)) :
            /\ addOk \/ labelsToAdd # <<>>
            /\ octokit' = OctokitAfter(name[1], name[2])
            /\ Completed([op |-> "managePRLabels", owner |-> name[1], repo |-> name[2],
                          labelsToAdd |-> labelsToAdd, labelsToRemove |-> labelsToRemove,
                          labelsBefore |-> remoteLabels],
                         managePRLabels(ghEnv, getOctokit(octokit, ghEnv.token),
                                        name[1], name[2], remoteLabels, labelsToAdd,
                                        labelsToRemove, failing, addOk))

GithubNext ==
    \/ StartService
    \/ CallCreateIssue
    \/ CallGetPullRequestDetails
    \/ CallHasReviewedPRAtCommit
    \/ CallManagePRLabels

Init ==
    /\ PipelineInit /\ ParserInit /\ ValidatorInit /\ HandlerInit /\ EntrypointInit
    /\ NotifierInit /\ FormatterInit /\ SessionInit /\ GithubInit

Next == PipelineNext

Spec == Init /\ [][Next]_vars

ParserSpec == Init /\ [][ParserNext]_vars

ValidatorSpec == Init /\ [][ValidatorNext]_vars

HandlerSpec == Init /\ [][HandlerNext]_vars

EntrypointSpec == Init /\ [][EntrypointNext]_vars

NotifierSpec == Init /\ [][NotifierNext]_vars

FormatterSpec == Init /\ [][FormatterNext]_vars

SessionSpec == Init /\ [][SessionNext]_vars

GithubSpec == Init /\ [][GithubNext]_vars

(***************************************************************************)
(* Properties of signature verification and routing                        *)
(***************************************************************************)
BothHeadersPresent(r) ==
    /\ ~HeaderMissing(r.headers, "x-slack-signature")
    /\ ~HeaderMissing(r.headers, "x-slack-request-timestamp")

\* the number written in the timestamp header is at most 300 seconds away
\* from the current time
TimestampWithinWindow(r, t) ==
    LET n == parseInt(r.headers["x-slack-request-timestamp"])
    IN  /\ ~n.isNaN
        /\ n.value - t <= ReplayWindowSeconds
        /\ t - n.value <= ReplayWindowSeconds

\* the signature header is 'v0=' + HMAC-SHA256(secret, 'v0:' + timestamp + ':' + rawBody)
SignatureIsCorrect(r) ==
    r.headers["x-slack-signature"] =
        SignatureString(
            <<"v0=", HmacSha256Hex(SigningSecret,
                        <<"v0", r.headers["x-slack-request-timestamp"],
                          IF "rawBody" \in DOMAIN r THEN r.rawBody ELSE <<>>>>)>>,
            3 + HexDigestLength)

\* C1: verifySignature returns true if and only if both headers are present,
\* the timestamp is within 300 seconds of the current time and the signature
\* is the HMAC of 'v0:' + timestamp + ':' + rawBody under the secret.
C1_TrueIffSignedAndFresh ==
    verified # "none" =>
        ( verified = "true" <=>
            ( /\ BothHeadersPresent(req)
              /\ TimestampWithinWindow(req, now)
              /\ SignatureIsCorrect(req) ) )

\* C2: a request whose signature is missing or does not match gets the
\* outcome false from the verifier, never a throw, ends as unauthorized and
\* has no envelope built and no handler invoked.
C2_MismatchYieldsFalse ==
    (verified # "none" /\ ~(BothHeadersPresent(req) /\ SignatureIsCorrect(req))) =>
        /\ verified = "false"
        /\ status = "unauthorized"
        /\ envelope = NoEnvelope
        /\ invoked = <<>>

\* the positions of the handlers registered for the envelope's
\* (provider, event) that accept the envelope
MatchingHandlers(reg, e) ==
    { i \in 1..Len(reg) :
        /\ reg[i].provider = e.provider
        /\ reg[i].event = e.event
        /\ canHandle(reg[i].name, e) }

C3_WitnessNoHandler ==
    /\ pc = "done"
    /\ envelope # NoEnvelope
    /\ status = "no_handler"

(***************************************************************************)
(* Properties of the repository parser                                     *)
(***************************************************************************)
\* s without the white space at its two ends
Trimmed(s) ==
    IF \A k \in 1..Len(s) : s[k] \in WhiteSpace THEN <<>>
    ELSE LET i == CHOOSE k \in 1..Len(s) :
                    s[k] \notin WhiteSpace /\ \A j \in 1..(k - 1) : s[j] \in WhiteSpace
             j == CHOOSE k \in 1..Len(s) :
                    s[k] \notin WhiteSpace /\ \A m \in (k + 1)..Len(s) : s[m] \in WhiteSpace
         IN  SubSeq(s, i, j)

IsName(s) == s # <<>> /\ \A k \in 1..Len(s) : s[k] \in WordChars \cup {".", "-"}

\* the ways to read t as owner '/' repo, optionally followed by white space
\* and rest
RepoForms(t) ==
    { f \in [slash : 1..Len(t), last : 1..Len(t)] :
        /\ f.slash < f.last
        /\ t[f.slash] = "/"
        /\ IsName(SubSeq(t, 1, f.slash - 1))
        /\ IsName(SubSeq(t, f.slash + 1, f.last))
        /\ (f.last = Len(t) \/ t[f.last + 1] \in WhiteSpace) }

FormOwner(t, f) == SubSeq(t, 1, f.slash - 1)

FormRepo(t, f) == SubSeq(t, f.slash + 1, f.last)

FormRest(t, f) == Trimmed(SubSeq(t, f.last + 1, Len(t)))

SingleLine(s) == \A k \in 1..Len(s) : s[k] \notin LineTerminators

\* C4 as stated: every text of the form 'owner/repo [rest]' is parsed into
\* exactly that owner, that repo and rest trimmed, with isExplicit = true,
\* whatever the defaults.
C4_ExplicitForAnyRest ==
    parsed.called =>
        \A f \in RepoForms(Trimmed(text)) :
            parsed.result = [owner |-> FormOwner(Trimmed(text), f),
                             repo |-> FormRepo(Trimmed(text), f),
                             remainingText |-> FormRest(Trimmed(text), f),
                             isExplicit |-> TRUE]

\* C4 amended: every text of the form 'owner/repo [rest]' whose rest,
\* trimmed, holds no line terminator is parsed into exactly that owner,
\* that repo and rest trimmed, with isExplicit = true, whatever the defaults.
C4_ExplicitForSingleLineRest ==
    parsed.called =>
        \A f \in RepoForms(Trimmed(text)) :
            SingleLine(FormRest(Trimmed(text), f)) =>
                parsed.result = [owner |-> FormOwner(Trimmed(text), f),
                                 repo |-> FormRepo(Trimmed(text), f),
                                 remainingText |-> FormRest(Trimmed(text), f),
                                 isExplicit |-> TRUE]

\* a text with surrounding white space, a dotted owner and a rest was parsed
\* while defaults were passed
C4_Witness ==
    /\ parsed.called
    /\ "defaultRepo" \in DOMAIN parsed.config
    /\ text # Trimmed(text)
    /\ \E f \in RepoForms(Trimmed(text)) :
          /\ FormRest(Trimmed(text), f) # <<>>
          /\ "." \in {FormOwner(Trimmed(text), f)[k] : k \in 1..(f.slash - 1)}
          /\ parsed.result.isExplicit

\* the default in force: the one passed, else the one of the environment,
\* else the built-in one
PassedOrConfigured(cfg, argKey, envKey, builtin) ==
    IF argKey \in DOMAIN cfg THEN cfg[argKey]
    ELSE IF envKey \in DOMAIN cfg THEN cfg[envKey] ELSE builtin

\* the owner and repo the defaults stand for
ExpectedDefault(cfg) ==
    LET r == PassedOrConfigured(cfg, "defaultRepo", "DEFAULT_GITHUB_REPO", DemoRepository)
        o == PassedOrConfigured(cfg, "defaultOwner", "DEFAULT_GITHUB_OWNER", ClaudeDidThis)
        slashes == {k \in 1..Len(r) : r[k] = "/"}
    IN  IF slashes = {} THEN [owner |-> o, repo |-> r]
        ELSE LET first == CHOOSE k \in slashes : \A j \in slashes : k <= j
             IN  [owner |-> SubSeq(r, 1, first - 1), repo |-> SubSeq(r, first + 1, Len(r))]

\* C5: a text that has not the form 'owner/repo [rest]' is parsed into
\* isExplicit = false, the whole trimmed text as remainingText and the
\* defaults as owner and repo, a default repo holding '/' being split on its
\* first slash.
C5_DefaultsOtherwise ==
    (parsed.called /\ RepoForms(Trimmed(text)) = {}) =>
        parsed.result = [owner |-> ExpectedDefault(parsed.config).owner,
                         repo |-> ExpectedDefault(parsed.config).repo,
                         remainingText |-> Trimmed(text),
                         isExplicit |-> FALSE]

\* a text without repository was parsed with a default repo that holds two slashes
C5_Witness ==
    /\ parsed.called
    /\ RepoForms(Trimmed(text)) = {}
    /\ Trimmed(text) # <<>>
    /\ "defaultRepo" \in DOMAIN parsed.config
    /\ Cardinality({k \in 1..Len(parsed.config.defaultRepo) :
                        parsed.config.defaultRepo[k] = "/"}) = 2
    /\ parsed.result.repo = <<"p", "/", "s">>

(***************************************************************************)
(* Properties of the repository name validator                             *)
(***************************************************************************)
OwnerChars == Letters \cup Digits \cup {"-"}

RepoChars == Letters \cup Digits \cup {".", "_", "-"}

C6_WitnessRejected ==
    /\ valid = "false"
    /\ owner = <<"a", ".", ".", "a">>
    /\ repo = <<"a">>

(***************************************************************************)
(* Properties of the slash-command handlers                                *)
(***************************************************************************)
HasResponseUrl(data) == "response_url" \in DOMAIN data /\ data.response_url # ""

\* the messages that report a failure to the user
ErrorMessages == {"usage", "not_configured", "failure"}

\* C7: handle of the /plan, /bug and /test handlers never throws or rejects:
\* whatever the outcome of the posts, of the sandbox run and of the issue
\* creation, it returns a response that carries a success flag.
C7_HandleNeverRejects ==
    /\ result # Rejected
    /\ hpc = "returned" => (result.kind = "response" /\ result.success \in BOOLEAN)

\* handle returned although the sandbox run failed and the post of the
\* failure message was not delivered
C7_Witness ==
    /\ hpc = "returned"
    /\ sandbox \in {"failed", "timed_out"}
    /\ posts # <<>>
    /\ posts[Len(posts)] = [message |-> "failure", delivered |-> FALSE]
    /\ result = Response(FALSE)

\* C8 as stated: whenever handle returns success = false, for any payload,
\* an error summary was posted to the response URL before it returned.
C8_FailureAlwaysPosted ==
    (hpc = "returned" /\ result = Response(FALSE)) =>
        \E i \in 1..Len(posts) : posts[i].message \in ErrorMessages

\* C8 amended: whenever handle returns success = false for a payload that
\* carries a response URL, the last thing it did was to post an error
\* summary to that URL; for a payload without response URL nothing is posted.
C8_FailurePostedWhenUrlGiven ==
    /\ (hpc = "returned" /\ result = Response(FALSE) /\ HasResponseUrl(payload)) =>
          /\ posts # <<>>
          /\ posts[Len(posts)].message \in ErrorMessages
    /\ ~HasResponseUrl(payload) => posts = <<>>

\* handle returned success = false, with a response URL, after the sandbox
\* run succeeded and the creation of the issue failed
C8_Witness ==
    /\ hpc = "returned"
    /\ result = Response(FALSE)
    /\ HasResponseUrl(payload)
    /\ sandbox = "succeeded"
    /\ issues = 1
    /\ posts[Len(posts)].message = "failure"

\* C9: handle returns its response before the sandbox run it started has
\* completed, the run going on in the background.
C9_ReturnsBeforeRunCompletes ==
    (hpc = "returned" /\ runs > 0) => sandboxAtReturn = "running"

\* C10: an invocation starts at most one sandbox run; after a failed or
\* timed-out run handle reports failure and no other run is started.
C10_AtMostOneRun ==
    /\ runs <= 1
    /\ (hpc = "returned" /\ sandbox \in {"failed", "timed_out"}) =>
          (result = Response(FALSE) /\ runs = 1)

\* handle returned after its only sandbox run was killed on timeout
C10_Witness ==
    /\ hpc = "returned"
    /\ sandbox = "timed_out"
    /\ runs = 1
    /\ result = Response(FALSE)

(***************************************************************************)
(* Properties of the repository selection of the handlers                  *)
(***************************************************************************)
\* what the repository-in-text rule makes of the text t under the
\* environment e: the repository named by the text with the rest as the
\* request, or the configured default repository
RuleTarget(t, e) ==
    IF RepoForms(Trimmed(t)) # {}
    THEN LET f == CHOOSE g \in RepoForms(Trimmed(t)) : TRUE
         IN  [explicit |-> TRUE,
              repoFullName |-> FullName(FormOwner(Trimmed(t), f), FormRepo(Trimmed(t), f)),
              rest |-> FormRest(Trimmed(t), f)]
    ELSE [explicit |-> FALSE,
          repoFullName |-> FullName(ExpectedDefault(e).owner, ExpectedDefault(e).repo),
          rest |-> Trimmed(t)]

\* the target agrees with the rule: the repository is the one of the rule,
\* and a rest that follows 'owner/repo' is the request
FollowsRule(target, t, e) ==
    target.called =>
        /\ target.repoFullName = RuleTarget(t, e).repoFullName
        /\ (RuleTarget(t, e).explicit /\ RuleTarget(t, e).rest # <<>>) =>
              target.request = RuleTarget(t, e).rest

\* C11: each of the /plan, /bug and /test handlers runs the sandbox, and
\* creates its issue, against the repository the repository-in-text rule
\* gives for its free text: owner/repo with the request built from rest
\* when the text is 'owner/repo rest', the configured default otherwise.
C11_HandlersApplyRepositoryRule ==
    /\ FollowsRule(runTarget, TrimmedOrEmpty(payload), env)
    /\ FollowsRule(issueTarget, TrimmedOrEmpty(payload), env)

(***************************************************************************)
(* Properties of the permission profiles                                   *)
(***************************************************************************)
\* the operation types the selection names, and the default one
RecognizedTypes == {"auto-tagging", "pr-review", "manual-pr-review", "default"}

ToolNames(tools) == {tools[i].tool : i \in 1..Len(tools)}

\* the profile lets the assistant run the command (a sequence of words)
PermitsCommand(tools, command) ==
    \E i \in 1..Len(tools) :
        /\ tools[i].tool = "Bash"
        /\ (tools[i].scoped => IsPrefix(tools[i].command, command))

\* commands that create a comment, a PR or an issue
CreatingCommands ==
    { <<"gh", "pr", "create">>, <<"gh", "pr", "comment">>, <<"gh", "pr", "review">>,
      <<"gh", "issue", "create">>, <<"gh", "issue", "comment">> }

UnrestrictedBash(tools) ==
    \E i \in 1..Len(tools) : tools[i].tool = "Bash" /\ ~tools[i].scoped

HasWriteCapability(tools) ==
    \/ ToolNames(tools) \cap {"Create", "Edit", "Write"} # {}
    \/ UnrestrictedBash(tools)
    \/ \E c \in CreatingCommands : PermitsCommand(tools, c)

ToolsSelected == epc \notin {"idle", "tools"}

\* C12: for an operation type that is not a recognized one the allowed
\* tools are a read-only profile, never the full read/write profile.
C12_UnrecognizedTypeIsReadOnly ==
    (ToolsSelected /\ operationType \notin RecognizedTypes) =>
        (allowedTools # FullTools /\ ~HasWriteCapability(allowedTools))

\* C13: the tools of auto-tagging are read access, issue view and edit and
\* label listing, those of pr-review and manual-pr-review are read and
\* history-inspection tools, and neither profile holds a write capability.
C13_RestrictedProfilesCannotWrite ==
    /\ (ToolsSelected /\ operationType = "auto-tagging") =>
          /\ ~HasWriteCapability(allowedTools)
          /\ \A i \in 1..Len(allowedTools) :
                \/ allowedTools[i].tool \in {"Read", "GitHub"}
                \/ /\ allowedTools[i].tool = "Bash"
                   /\ allowedTools[i].command \in
                        {<<"gh", "issue", "edit">>, <<"gh", "issue", "view">>,
                         <<"gh", "label", "list">>}
    /\ (ToolsSelected /\ operationType \in {"pr-review", "manual-pr-review"}) =>
          ~HasWriteCapability(allowedTools)

(***************************************************************************)
(* Properties of the response written to standard output                   *)
(***************************************************************************)
\* the numbers of the lines of f that are exactly the given line
LinesEqual(f, line) == {i \in 1..Len(f.lines) : f.lines[i] = line}

\* both sentinels are there, once each, on lines of their own, start first
WellDelimited(f) ==
    /\ Cardinality(LinesEqual(f, ResponseStart)) = 1
    /\ Cardinality(LinesEqual(f, ResponseEnd)) = 1
    /\ \A i \in LinesEqual(f, ResponseStart) : \A j \in LinesEqual(f, ResponseEnd) : i < j
    /\ f.terminated

\* the lines strictly between the two sentinels
Between(f) ==
    LET i == CHOOSE k \in LinesEqual(f, ResponseStart) : TRUE
        j == CHOOSE k \in LinesEqual(f, ResponseEnd) : TRUE
    IN  SubSeq(f.lines, i + 1, j - 1)

\* C14: every run of the entrypoint, whatever the exit status and the
\* output of the assistant, has written when it ends exactly one start
\* sentinel line and after it exactly one end sentinel line; a run that
\* wrote the start sentinel ends with the end sentinel written.
C14_SentinelsAlwaysPaired ==
    epc = "exited" => WellDelimited(stdout)

\* C15: the text between the two sentinels is never empty: it holds a line
\* that is not empty, the extraction-failure message when nothing was
\* extracted.
C15_ResponseNeverEmpty ==
    (epc = "exited" /\ WellDelimited(stdout)) =>
        \E k \in 1..Len(Between(stdout)) : Between(stdout)[k] # <<>>

\* the numbers of the lines of f that start with a tool marker
MarkerLines(f) ==
    {i \in 1..Len(f.lines) :
        \E pat \in ToolPatterns :
            /\ Len(f.lines[i]) >= Len(pat)
            /\ \A k \in 1..Len(pat) : f.lines[i][k] = pat[k]}

\* the lines after the last marker line, the empty ones removed
AfterLastMarker(f) ==
    LET last == CHOOSE i \in MarkerLines(f) : \A j \in MarkerLines(f) : j <= i
        rest == [k \in 1..(Len(f.lines) - last) |-> f.lines[last + k]]
    IN  SelectSeq(rest, NonEmptyLine)

\* what the script extracted: $RESPONSE_FILE of the logged script, what
\* follows the start sentinel on stdout for the fixed script
Extracted ==
    IF script = "logged" THEN responseFile
    ELSE File(Tail(stdout.lines), stdout.terminated)

ExtractionDone ==
    \/ script = "logged" /\ epc \in {"start", "body", "end", "exited"}
    \/ script = "fixed" /\ (epc = "end" \/ (epc = "exited" /\ stdout.lines # <<>>
                                              /\ exitCode # 0))

\* C16: when a line of the output starts with 'Tool:', 'Using', 'Running'
\* or 'Executing', the extraction gives exactly the lines after the last
\* such line, the empty ones removed, in their order; when no line does, it
\* gives the whole output unchanged.
C16_HeuristicExtraction ==
    ExtractionDone =>
        IF MarkerLines(fullOutput) # {}
        THEN Extracted.lines = AfterLastMarker(fullOutput)
        ELSE Extracted = fullOutput

\* the output had two marker lines followed by a line of text, and the
\* extraction gave that line alone
C16_Witness ==
    /\ ExtractionDone
    /\ Len(fullOutput.lines) = 3
    /\ MarkerLines(fullOutput) = {1, 2}
    /\ fullOutput.lines[3] # <<>>
    /\ Extracted.lines = <<fullOutput.lines[3]>>

\* the output had no marker line and was extracted whole
C16_WitnessNoMarker ==
    /\ ExtractionDone
    /\ MarkerLines(fullOutput) = {}
    /\ Len(fullOutput.lines) = MaxOutputLines
    /\ ~fullOutput.terminated
    /\ Extracted = fullOutput

(***************************************************************************)
(* Properties of the notification service                                  *)
(***************************************************************************)
\* the last call was one of the kind, made while the gates before the
\* duration rule were open
CompleteCallWithOpenGates ==
    /\ lastCall.kind = "complete"
    /\ svc.client /\ svc.enabled /\ svc.notifyOnSuccess

\* C17: notifyTaskComplete sends no message for a result with success =
\* true whose duration is strictly below minDurationMs, sends it at a
\* duration equal to the threshold, and the duration rule never suppresses
\* a result with success = false, whatever its duration and whether or not
\* its error field is set.
C17_DurationRuleSparesFailures ==
    (CompleteCallWithOpenGates /\ ~svc.minDurationMs.isNaN) =>
        LET duration == DurationOf(lastCall.result, lastCall.elapsed)
        IN  /\ (lastCall.result.success /\ duration < svc.minDurationMs.value) =>
                  ~lastCall.outcome.posted
            /\ (lastCall.result.success /\ duration = svc.minDurationMs.value) =>
                  lastCall.outcome.path # "quick"
            /\ ~lastCall.result.success => lastCall.outcome.path # "quick"

\* C18: notifyTaskStart, notifyTaskComplete and notifyTaskError resolve
\* without throwing or rejecting for every context and result, whether the
\* postMessage call succeeds or fails.
C18_NotifyNeverRejects ==
    lastCall.kind # "none" => lastCall.outcome.settled = "resolved"

\* an error call posted and the notifyTaskComplete call after it met a
\* failing postMessage, and resolved
C18_Witness ==
    /\ lastCall.kind = "complete"
    /\ lastCall.outcome.path = "post_failed"
    /\ lastCall.outcome.settled = "resolved"
    /\ slackPosts = <<"error", "complete">>

\* a call whose message could not be formatted resolved as well
C18_WitnessFormat ==
    /\ lastCall.kind = "start"
    /\ lastCall.outcome.path = "format_threw"
    /\ lastCall.outcome.settled = "resolved"

GloballyDisabled == ~EnvIs(nenv, "SLACK_NOTIFICATION_ENABLED", "true")

NoBotToken == "SLACK_BOT_TOKEN" \notin DOMAIN nenv \/ nenv.SLACK_BOT_TOKEN = ""

\* C19: when SLACK_NOTIFICATION_ENABLED is not 'true' or no bot token is
\* configured, isEnabled() is false and no sequence of notifyTask* calls
\* posts a message.
C19_DisabledNeverPosts ==
    (svc.constructed /\ (GloballyDisabled \/ NoBotToken)) =>
        (~isEnabled(svc) /\ slackPosts = <<>>)

\* MaxCalls calls were made on a service with a token and every toggle on,
\* under an environment without SLACK_NOTIFICATION_ENABLED, and none posted
C19_Witness ==
    /\ svc.constructed
    /\ "SLACK_NOTIFICATION_ENABLED" \notin DOMAIN nenv
    /\ EnvIs(nenv, "SLACK_BOT_TOKEN", "xoxb")
    /\ EnvIs(nenv, "SLACK_NOTIFY_ON_START", "true")
    /\ ncalls = MaxCalls
    /\ lastCall.kind = "error"
    /\ slackPosts = <<>>

\* calls were made on an enabled service whose token is the empty string
C19_WitnessNoToken ==
    /\ svc.constructed
    /\ EnvIs(nenv, "SLACK_NOTIFICATION_ENABLED", "true")
    /\ EnvIs(nenv, "SLACK_BOT_TOKEN", "")
    /\ ncalls = MaxCalls
    /\ slackPosts = <<>>

Posted(kind) == \E i \in 1..Len(slackPosts) : slackPosts[i] = kind

\* C20: a notification of a kind is sent only when its toggle is on: start
\* only when SLACK_NOTIFY_ON_START is 'true', success and error only when
\* their variable is not 'false'; an enabled error notification is sent
\* whatever the duration of the task.
C20_TogglesGateEachKind ==
    /\ Posted("start") => EnvIs(nenv, "SLACK_NOTIFY_ON_START", "true")
    /\ Posted("complete") => ~EnvIs(nenv, "SLACK_NOTIFY_ON_SUCCESS", "false")
    /\ Posted("error") => ~EnvIs(nenv, "SLACK_NOTIFY_ON_ERROR", "false")
    /\ (/\ lastCall.kind = "error"
        /\ isEnabled(svc)
        /\ ~EnvIs(nenv, "SLACK_NOTIFY_ON_ERROR", "false")) => lastCall.outcome.posted

\* on an enabled service without SLACK_NOTIFY_ON_START a start call posted
\* nothing and the error call after it, for a task that ran below the
\* duration threshold, posted
C20_Witness ==
    /\ svc.constructed
    /\ isEnabled(svc)
    /\ "SLACK_NOTIFY_ON_START" \notin DOMAIN nenv
    /\ "SLACK_NOTIFY_ON_ERROR" \notin DOMAIN nenv
    /\ ~svc.minDurationMs.isNaN
    /\ ncalls = 2
    /\ lastCall.kind = "error"
    /\ lastCall.elapsed < svc.minDurationMs.value
    /\ slackPosts = <<"error">>

(***************************************************************************)
(* Properties of message formatting                                        *)
(***************************************************************************)
\* the rendering the duration rule prescribes for s whole seconds
RenderedDuration(s) ==
    IF s < 60 THEN NumberToString(s) \o <<"s">>
    ELSE IF s < 3600
    THEN NumberToString(s \div 60) \o <<"m", " ">> \o NumberToString(s % 60) \o <<"s">>
    ELSE NumberToString(s \div 3600) \o <<"h", " ">>
             \o NumberToString((s \div 60) % 60) \o <<"m">>

DurationExamples ==
    (45000 :> <<"4", "5", "s">>)
    @@ (125000 :> <<"2", "m", " ", "5", "s">>)
    @@ (7325000 :> <<"2", "h", " ", "2", "m">>)

\* C21: for ms >= 0 and s = floor(ms / 1000), formatDuration returns "<s>s"
\* when s < 60, "<floor(s/60)>m <s mod 60>s" when 60 <= s < 3600 and
\* "<floor(s/3600)>h <floor(s/60) mod 60>m" when s >= 3600; 45000 gives
\* "45s", 125000 gives "2m 5s" and 7325000 gives "2h 2m".
C21_DurationRendering ==
    formatCall.kind = "duration" =>
        /\ formatted.duration = RenderedDuration(formatCall.ms \div 1000)
        /\ formatCall.ms \in DOMAIN DurationExamples =>
               formatted.duration = DurationExamples[formatCall.ms]

\* a duration of more than two hours has been formatted
C21_Witness ==
    /\ formatCall.kind = "duration"
    /\ formatCall.ms = 7325000
    /\ formatted.duration = <<"2", "h", " ", "2", "m">>

\* text cut to at most n characters, the ellipsis marking a cut
CutTo(s, n) == IF Len(s) <= n THEN s ELSE SubSeq(s, 1, n) \o Ellipsis

\* the first n lines of a text
FirstLines(s, n) ==
    LET lines == SplitLines(s)
    IN  JoinLines(SubSeq(lines, 1, IF Len(lines) < n THEN Len(lines) ELSE n))

MessageKinds == {"start", "success", "error"}

\* C22: in every notification message (start, success and error) the
\* embedded command text is cut to at most 100 characters, the response
\* preview to at most 500 characters and the stack trace to its first 5
\* lines, an ellipsis being appended only when text was cut.
C22_TruncationLimits ==
    formatCall.kind \in MessageKinds =>
        /\ "command" \in DOMAIN formatted =>
               formatted.command = CutTo(formatCall.context.command, 100)
        /\ "preview" \in DOMAIN formatted =>
               formatted.preview = CutTo(formatCall.result.responsePreview, 500)
        /\ "stack" \in DOMAIN formatted =>
               \/ formatted.stack = FirstLines(formatCall.error.stack, 5)
               \/ /\ Len(SplitLines(formatCall.error.stack)) > 5
                  /\ formatted.stack = FirstLines(formatCall.error.stack, 5) \o Ellipsis

\* the limits hold in the start and success messages
C22_LimitsOutsideErrorMessage ==
    formatCall.kind \in {"start", "success"} => C22_TruncationLimits

\* in the error message the command is cut to 200 characters, the preview and
\* the stack trace as stated
C22_ErrorMessageLimits ==
    formatCall.kind = "error" =>
        /\ "command" \in DOMAIN formatted =>
               formatted.command = CutTo(formatCall.context.command, 200)
        /\ "stack" \in DOMAIN formatted =>
               formatted.stack = FirstLines(formatCall.error.stack, 5)

\* an error message embeds a command of 101 characters whole
C22_ErrorMessageKeepsLongCommand ==
    /\ formatCall.kind = "error"
    /\ Len(formatCall.context.command) = 101
    /\ formatted.command = formatCall.context.command

(***************************************************************************)
(* Properties of the session logs                                          *)
(***************************************************************************)
\* C23: the session log file, named from the repository, the issue number
\* and the start timestamp, is distinct for every concurrent run, including
\* two runs for the same repository and issue started at the same time.
C23_ConcurrentLogFilesDistinct ==
    \A c, d \in Containers :
        (c # d /\ sessions[c].running /\ sessions[d].running) =>
            sessions[c].logFile # sessions[d].logFile

\* runs that differ in repository, issue or second of start have distinct
\* log files
C23_DistinctUnlessSameSecond ==
    \A c, d \in Containers :
        (/\ c # d /\ sessions[c].running /\ sessions[d].running
         /\ \/ sessions[c].repoFullName # sessions[d].repoFullName
            \/ sessions[c].issueNumber # sessions[d].issueNumber
            \/ sessions[c].started \div 2 # sessions[d].started \div 2)
        => sessions[c].logFile # sessions[d].logFile

\* two runs for one issue started at different instants of one second
C23_SameSecondSameFile ==
    /\ sessions[1].running /\ sessions[2].running
    /\ sessions[1].started # sessions[2].started
    /\ sessions[1].logFile = sessions[2].logFile

(***************************************************************************)
(* Properties of the GitHub service                                        *)
(***************************************************************************)
SafeCharacters == Letters \cup Digits \cup {".", "_", "-"}

\* a non-empty name of safe characters only
SafeName(s) == s # <<>> /\ \A i \in 1..Len(s) : s[i] \in SafeCharacters

FailedWithoutValue ==
    { Threw, Returned("null"), Returned("false") }

C24_WitnessRefused ==
    /\ ghCall.op = "getPullRequestDetails"
    /\ ghCall.owner = <<"a", "/", "o">>
    /\ ghEnv.NODE_ENV = "production" /\ getOctokit(octokit, ghEnv.token)
    /\ ghCall.outcome = Returned("null")

\* the user name the service takes for its own
BotName == IF "BOT_USERNAME" \in DOMAIN ghEnv THEN ghEnv.BOT_USERNAME ELSE "ClaudeBot"

\* the review is by the bot and its body names the commit
BotReviewOf(review, commitSha) ==
    /\ "login" \in DOMAIN review /\ review.login = BotName
    /\ "body" \in DOMAIN review
    /\ \E i \in 1..Len(review.body) :
           /\ i + 7 + Len(commitSha) <= Len(review.body)
           /\ SubSeq(review.body, i, i + 7) = <<"c", "o", "m", "m", "i", "t", ":", " ">>
           /\ SubSeq(review.body, i + 8, i + 7 + Len(commitSha)) = commitSha

\* the reviews the lookup of the call obtained: none when it was not made or
\* failed
ReviewsObtained ==
    IF Len(apiLog) = 1 /\ apiLog[1].status = 200 THEN apiLog[1].arg ELSE <<>>

\* C25: hasReviewedPRAtCommit returns true exactly when the reviews of the
\* pull request hold one by the bot user whose body contains
\* "commit: <commitSha>"; otherwise it returns false, also when the lookup
\* fails, and it never throws.
C25_ReviewedExactlyWhenBotReviewFound ==
    ghCall.op = "hasReviewedPRAtCommit" =>
        /\ ghCall.outcome \in { Returned("true"), Returned("false") }
        /\ ghCall.outcome = Returned("true") <=>
               \E i \in 1..Len(ReviewsObtained) :
                   BotReviewOf(ReviewsObtained[i], ghCall.commitSha)

\* the second of two reviews is the bot's review of a longer commit name
C25_Witness ==
    /\ ghCall.op = "hasReviewedPRAtCommit"
    /\ ghCall.commitSha = <<"a", "b">>
    /\ Len(ReviewsObtained) = 2
    /\ ReviewsObtained[1] = [login |-> "other", body |-> CommitMark \o <<"a", "b">>]
    /\ ReviewsObtained[2] =
           [login |-> "ClaudeBot", body |-> <<"o", "k", " ">> \o CommitMark \o <<"a", "b", "c">>]
    /\ BotName = "ClaudeBot"
    /\ ghCall.outcome = Returned("true")

\* the lookup failed and the call returned false
C25_WitnessLookupFailed ==
    /\ ghCall.op = "hasReviewedPRAtCommit"
    /\ Len(apiLog) = 1 /\ apiLog[1].status = 500
    /\ ghCall.outcome = Returned("false")

\* the call had safe names and a client outside test mode
LiveCall ==
    /\ ghCall.op # "none"
    /\ SafeName(ghCall.owner) /\ SafeName(ghCall.repo)
    /\ ghEnv.NODE_ENV # "test" /\ octokit

\* C26: managePRLabels attempts every requested removal, in order, before
\* it makes the addition request; a failed removal is not propagated, a
\* failed addition makes the call throw, and a label listed in both sets is
\* on the pull request at the end.
C26_RemovalsPrecedeAddition ==
    (ghCall.op = "managePRLabels" /\ LiveCall) =>
        LET n == Len(ghCall.labelsToRemove)
            adds == IF ghCall.labelsToAdd = <<>> THEN 0 ELSE 1
        IN  /\ Len(apiLog) = n + adds
            /\ \A i \in 1..n :
                   /\ apiLog[i].method = "issues.removeLabel"
                   /\ apiLog[i].arg = <<ghCall.labelsToRemove[i]>>
            /\ adds = 1 =>
                   /\ apiLog[n + 1].method = "issues.addLabels"
                   /\ apiLog[n + 1].arg = ghCall.labelsToAdd
            /\ ghCall.outcome = Threw <=> (adds = 1 /\ apiLog[n + 1].status # 200)
            /\ ghCall.outcome # Threw =>
                   \A l \in Elements(ghCall.labelsToAdd) \cap Elements(ghCall.labelsToRemove) :
                       l \in remoteLabels

\* a label of both sets is kept although the removal of another label failed
C26_Witness ==
    /\ ghCall.op = "managePRLabels" /\ LiveCall
    /\ ghCall.labelsToRemove = <<"y", "x">>
    /\ ghCall.labelsToAdd = <<"x">>
    /\ ghCall.labelsBefore = {"x", "y"}
    /\ Len(apiLog) = 3
    /\ apiLog[1].status = 500 /\ apiLog[2].status = 200 /\ apiLog[3].status = 200
    /\ ghCall.outcome = Returned("void")
    /\ remoteLabels = {"x", "y"}

\* the addition failed after the removals and the call threw
C26_WitnessAdditionFailed ==
    /\ ghCall.op = "managePRLabels" /\ LiveCall
    /\ ghCall.labelsToRemove = <<"x">>
    /\ ghCall.labelsBefore = {"x"}
    /\ Len(apiLog) = 2 /\ apiLog[2].status = 500
    /\ ghCall.outcome = Threw
    /\ remoteLabels = {}

(***************************************************************************)
(* Properties of the steps of the slash-command handlers                   *)
(***************************************************************************)
\* C27: in /plan and /bug an issue is created only after the sandbox run has
\* returned successfully; when the run fails createIssue is never called;
\* an invocation creates at most one issue.
C27_IssueOnlyAfterSuccessfulRun ==
    /\ issues <= 1
    /\ issues > 0 => (hKind \in {"plan", "bug"} /\ runs = 1 /\ sandbox = "succeeded")
    /\ hpc = "createIssue" => sandbox = "succeeded"
    /\ sandbox \in {"failed", "timed_out"} => issues = 0

\* /bug has returned success after its run and the creation of one issue
C27_Witness ==
    /\ hKind = "bug"
    /\ hpc = "returned"
    /\ sandbox = "succeeded"
    /\ issues = 1
    /\ result = Response(TRUE)

\* /plan has returned after a failed run without calling createIssue
C27_WitnessRunFailed ==
    /\ hKind = "plan"
    /\ hpc = "returned"
    /\ sandbox = "failed"
    /\ issues = 0

\* the invocation got past the checks of its input: a text for /plan and
\* /bug, a repository owner for /test
PassedValidation ==
    /\ hKind # "none"
    /\ IF hKind \in {"plan", "bug"} THEN ~TextMissing(payload)
       ELSE ~OwnerNotConfigured(hKind, payload, env)

TerminalMessages == {"success", "failure"}

\* C28: an invocation of /plan, /bug or /test that passes input validation
\* and has a response URL posts the processing acknowledgment before it
\* starts the sandbox run and then exactly one terminal message: success
\* only after every step succeeded, or failure; never both, never neither;
\* the returned success flag agrees with the message posted.
C28_AckThenOneTerminalMessage ==
    (PassedValidation /\ HasResponseUrl(payload)) =>
        /\ runs > 0 => (posts # <<>> /\ posts[1].message = "processing")
        /\ Cardinality({ i \in 1..Len(posts) : posts[i].message \in TerminalMessages }) <= 1
        /\ hpc = "returned" =>
               /\ Len(posts) = 2
               /\ posts[1].message = "processing"
               /\ posts[2].message \in TerminalMessages
               /\ posts[2].message = "success" <=> result = Response(TRUE)
               /\ posts[2].message = "failure" <=> result = Response(FALSE)
               /\ posts[2].message = "success" =>
                      /\ sandbox = "succeeded"
                      /\ hKind \in {"plan", "bug"} => issues = 1

\* /plan has posted the acknowledgment and then the failure of the issue
\* creation, and returned success = false
C28_Witness ==
    /\ hKind = "plan"
    /\ PassedValidation /\ HasResponseUrl(payload)
    /\ hpc = "returned"
    /\ Len(posts) = 2
    /\ posts[1].message = "processing" /\ posts[2].message = "failure"
    /\ sandbox = "succeeded" /\ issues = 1
    /\ result = Response(FALSE)

\* /test has posted the acknowledgment and the success message
C28_WitnessSuccess ==
    /\ hKind = "test_parser"
    /\ PassedValidation /\ HasResponseUrl(payload)
    /\ hpc = "returned"
    /\ Len(posts) = 2
    /\ posts[1].message = "processing" /\ posts[2].message = "success"
    /\ result = Response(TRUE)

\* C29: /plan and /bug with a missing, empty or blank text run nothing,
\* create no issue, post a usage message and return success = false; /test
\* with an empty text still runs the sandbox, with the command text
\* "webhook test acknowledgment".
C29_EmptyTextHandling ==
    (hpc = "returned" /\ TextMissing(payload)) =>
        IF hKind \in {"plan", "bug"}
        THEN /\ runs = 0 /\ issues = 0
             /\ \E i \in 1..Len(posts) : posts[i].message = "usage"
             /\ result = Response(FALSE)
        ELSE /\ runs = 1
             /\ runTarget.called
             /\ runTarget.request = WebhookTestAcknowledgment

\* /plan and /bug without text do no work and report the usage when there is
\* a response URL
C29_NoWorkWithoutText ==
    (hpc = "returned" /\ TextMissing(payload) /\ hKind \in {"plan", "bug"}) =>
        /\ runs = 0 /\ issues = 0
        /\ result = Response(FALSE)
        /\ HasResponseUrl(payload) => (Len(posts) = 1 /\ posts[1].message = "usage")

\* the /test handler built on the repository parser runs the sandbox with the
\* default command text when the text is empty and an owner is configured
C29_ParserTestAppliesDefault ==
    (/\ hpc = "returned" /\ TextMissing(payload) /\ hKind = "test_parser"
     /\ PassedValidation) =>
        (runs = 1 /\ runTarget.called /\ runTarget.request = WebhookTestAcknowledgment)

\* the /test handler of TestHandler.ts has run the sandbox with an empty
\* command text
C29_TestRunsWithEmptyCommand ==
    /\ hKind = "test"
    /\ hpc = "returned"
    /\ TextMissing(payload)
    /\ runs = 1
    /\ runTarget.called
    /\ runTarget.request = <<>>

(***************************************************************************)
(* The naming rule documented above isValidRepository                      *)
(***************************************************************************)
\* owner: alphanumerics, hyphens and single dots, as the comment has it,
\* beginning and ending with an alphanumeric
DocumentedOwner(s) ==
    /\ s # <<>>
    /\ \A k \in 1..Len(s) : s[k] \in OwnerChars \cup {"."}
    /\ s[1] \in Letters \cup Digits
    /\ s[Len(s)] \in Letters \cup Digits
    /\ \A k \in 1..(Len(s) - 1) : ~(s[k] = "." /\ s[k + 1] = ".")

\* C30: isValidRepository follows the naming rule documented above it: an
\* owner with single, non-consecutive dots is accepted, only consecutive
\* dots are rejected.
C30_FollowsDocumentedRule ==
    valid # "none" =>
        ( valid = "true" <=>
            ( /\ DocumentedOwner(owner)
              /\ repo # <<>>
              /\ \A k \in 1..Len(repo) : repo[k] \in RepoChars ) )

\* an owner with one inner dot was rejected
C30_SingleDotRejected ==
    /\ valid = "false"
    /\ owner = <<"a", ".", "a">>
    /\ repo = <<"a">>

====
